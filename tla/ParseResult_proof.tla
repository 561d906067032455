------------------------- MODULE ParseResult_proof -------------------------
(***************************************************************************)
(* ParseModule implements ParseResult: for every set of files and options, *)
(* however the bytes arrive and however the threads are scheduled, a file  *)
(* is parsed to the module it declares or to one of the errors it deserves.*)
(***************************************************************************)
EXTENDS ParseModule_proof

-----------------------------------------------------------------------------
(***************************************************************************)
(* The invariants.  The first: what the parser has passed has no fault.    *)
(***************************************************************************)

\* A section with no fault of its own, and one that fits the sections in front
\* of it as well.
Proper(f, i, validation) ==
  /\ Placed(f, i)
  /\ f.sections[i].kind # "unknown" /\ ~Refused(f.sections[i], validation)
Sound(f, i, validation) ==
  LET s == f.sections[i] IN
  /\ Proper(f, i, validation)
  /\ s.junk = 0
  /\ \A j \in 1 .. i - 1 : f.sections[j].kind = s.kind =>
       s.kind # "code" /\ (s.kind \in CheckedKinds => f.sections[j].items = <<>>)
  /\ s.kind = "function" =>
       \A ty \in Range(s.items) : ty < Len(ItemsUpTo(f, "type", i - 1))
  /\ s.kind = "code" => Len(s.items) <= Len(ItemsUpTo(f, "function", i - 1))

\* The parser is at place p: it has passed the sections in front of it, and
\* the header of the section it is in.
PassedAt(f, p, validation) ==
  /\ \A i \in 1 .. p.section - 1 : Sound(f, i, validation)
  /\ InCodeAt(f, p) => Proper(f, p.section, validation)

Passed ==
  /\ pc # "done" => PassedAt(file, parser, options.validation)
  /\ pc \in Parsed => reader.end_reached /\ file.cut = 0

(***************************************************************************)
(* The second: what has been lowered has no fault, and an error that a     *)
(* thread has found is that of the body it stopped at.                     *)
(***************************************************************************)
Healthy(f, i, validation) ==
  i \in DOMAIN Bodies(f) /\ ~Refused(Bodies(f)[i], validation)

\* Lowered functions are told by their addresses, jobs by what they are.
HealthyCode(c, f, funcs, validation) ==
  \E i \in DOMAIN Bodies(f) : Healthy(f, i, validation) /\ c.addr = funcs + (i - 1)
JobOf(j, f) == \E i \in DOMAIN Bodies(f) : j = JobAt(f, i)

Judged(w, f, funcs, validation) ==
  /\ \A i \in DOMAIN w.codes : HealthyCode(w.codes[i], f, funcs, validation)
  /\ \A i \in DOMAIN w.jobs : JobOf(w.jobs[i], f)
  /\ w.err # NoError => /\ w.jobs # <<>>
                        /\ Refused(Head(w.jobs).body, validation)
                        /\ w.err = <<"function", Head(w.jobs).ordinal + 1>>

PoolJudged(cs, js, ws, f, funcs, validation) ==
  /\ \A i \in DOMAIN cs : HealthyCode(cs[i], f, funcs, validation)
  /\ \A i \in DOMAIN js : JobOf(js[i], f)
  /\ \A w \in DOMAIN ws : Judged(ws[w], f, funcs, validation)

\* The error of a file's function bodies.
FirstFault(f, validation) == <<"function", FirstOf(FaultyBodies(f, validation))>>

Lowering ==
  /\ pc # "done" => \A i \in DOMAIN reader.code : Healthy(file, i, options.validation)
  /\ pc \in {"spawn", "join", "unwind"} =>
       PoolJudged(codes, jobs, workers, file, reader.imported_func_count, options.validation)
  /\ pc = "unwind" => /\ FaultyBodies(file, options.validation) # {}
                      /\ reader.err = FirstFault(file, options.validation)

Judging == Holding /\ Passed /\ Lowering

-----------------------------------------------------------------------------
(***************************************************************************)
(* What the abstract specification says.                                   *)
(***************************************************************************)

\* The instance's copies of WasmBinary's definitions are those definitions.
LEMMA SameOutcomes ==
  /\ Abstract!Pending = Pending
  /\ \A f, o : Abstract!Outcomes(f, o) = Outcomes(f, o)
<1>1. /\ Abstract!Pending = Pending /\ Abstract!NoError = NoError
      /\ \A class : Abstract!Error(class) = Error(class)
      /\ \A S : Abstract!FirstOf(S) = FirstOf(S)
      /\ \A x, v : Abstract!Refused(x, v) = Refused(x, v)
      /\ Abstract!StoredKinds = StoredKinds /\ Abstract!CheckedKinds = CheckedKinds
      /\ \A s : Abstract!Range(s) = Range(s)
  BY Zenon DEF Abstract!Pending, Pending, Abstract!Error, Error, Abstract!NoError, NoError,
         Abstract!FirstOf, FirstOf, Abstract!Refused, Refused, Abstract!StoredKinds, StoredKinds,
         Abstract!CheckedKinds, CheckedKinds, Abstract!Range, Range
<1>2. \A f, kind, n : Abstract!ItemsUpTo(f, kind, n) = ItemsUpTo(f, kind, n)
  BY Zenon DEF Abstract!ItemsUpTo, ItemsUpTo, Abstract!Parts, Parts, Abstract!FlattenSeq, FlattenSeq
<1>3. \A f, kind : Abstract!ItemsOf(f, kind) = ItemsOf(f, kind)
  BY <1>2, Zenon DEF Abstract!ItemsOf, ItemsOf
<1>4. \A f : Abstract!Bodies(f) = Bodies(f) /\ Abstract!Signatures(f) = Signatures(f)
  BY <1>3, Zenon DEF Abstract!Bodies, Bodies, Abstract!Signatures, Signatures
<1>5. \A f, v : Abstract!FaultyBodies(f, v) = FaultyBodies(f, v)
  BY <1>1, <1>4 DEF Abstract!FaultyBodies, FaultyBodies
<1>6. \A f, i : Abstract!Placed(f, i) <=> Placed(f, i)
  BY Zenon DEF Abstract!Placed, Placed, Abstract!Rank, Rank, Abstract!SectionOrder, SectionOrder,
               Abstract!CheckedKinds, CheckedKinds
<1>7. \A s, x : Abstract!CountOf(s, x) = CountOf(s, x)
  BY Zenon DEF Abstract!CountOf, CountOf, Abstract!Cardinality, Cardinality
<1>8. \A f, i : Abstract!FunctionOf(f, i) = FunctionOf(f, i)
  BY <1>3, <1>4, <1>7, Zenon DEF Abstract!FunctionOf, FunctionOf, Abstract!MetadataOf, MetadataOf
<1>9. \A f : Abstract!ModuleOf(f) = ModuleOf(f)
  BY <1>1, <1>3, <1>4, <1>8 DEF Abstract!ModuleOf, ModuleOf
<1>10. \A f, v : Abstract!Faults(f, v) = Faults(f, v)
  BY <1>1, <1>2, <1>4, <1>5, <1>6 DEF Abstract!Faults, Faults
<1> QED
  BY <1>1, <1>9, <1>10 DEF Abstract!Outcomes, Outcomes

-----------------------------------------------------------------------------
(***************************************************************************)
(* Faults.                                                                 *)
(***************************************************************************)

\* Each thing that is wrong with a file is one of its faults.
LEMMA FaultsOf ==
  ASSUME NEW f, NEW validation
  PROVE  LET s == f.sections
             faults == Faults(f, validation)
         IN /\ f.cut > 0 => Error("truncated") \in faults
            /\ FaultyBodies(f, validation) # {} => FirstFault(f, validation) \in faults
            /\ Len(Bodies(f)) < Len(Signatures(f)) => Error("mismatch") \in faults
            /\ \A i \in DOMAIN s :
                 /\ ~Placed(f, i) => Error("order") \in faults
                 /\ s[i].kind = "unknown" => Error("unsupported") \in faults
                 /\ Refused(s[i], validation) => Error("section") \in faults
                 /\ s[i].junk > 0 => Error("junk") \in faults
                 /\ \A j \in DOMAIN s :
                      i < j /\ s[i].kind = s[j].kind
                        /\ (s[i].kind = "code" \/ (s[i].kind \in CheckedKinds /\ s[i].items # <<>>))
                      => Error("duplicate") \in faults
                 /\ s[i].kind = "function"
                      /\ (\E ty \in Range(s[i].items) : ty >= Len(ItemsUpTo(f, "type", i - 1)))
                      => Error("type") \in faults
                 /\ s[i].kind = "code"
                      /\ Len(s[i].items) > Len(ItemsUpTo(f, "function", i - 1))
                      => Error("signature") \in faults
<1> DEFINE s == f.sections
           faults == Faults(f, validation)
           Wrong(class, condition) == IF condition THEN {Error(class)} ELSE {}
           order == \E i \in DOMAIN s : ~Placed(f, i)
           unsupported == \E i \in DOMAIN s : s[i].kind = "unknown"
           section == \E i \in DOMAIN s : Refused(s[i], validation)
           duplicate == \E i, j \in DOMAIN s :
                          /\ i < j /\ s[i].kind = s[j].kind
                          /\ \/ s[i].kind = "code"
                             \/ s[i].kind \in CheckedKinds /\ s[i].items # <<>>
           type == \E i \in DOMAIN s :
                     /\ s[i].kind = "function"
                     /\ \E ty \in Range(s[i].items) : ty >= Len(ItemsUpTo(f, "type", i - 1))
           signature == \E i \in DOMAIN s :
                          /\ s[i].kind = "code"
                          /\ Len(s[i].items) > Len(ItemsUpTo(f, "function", i - 1))
           mismatch == Len(Bodies(f)) < Len(Signatures(f))
           junk == \E i \in DOMAIN s : s[i].junk > 0
           bodies == IF FaultyBodies(f, validation) = {} THEN {} ELSE {FirstFault(f, validation)}
<1>1. faults = UNION {Wrong("truncated", f.cut > 0), Wrong("order", order),
                      Wrong("unsupported", unsupported), Wrong("section", section),
                      Wrong("duplicate", duplicate), Wrong("type", type),
                      Wrong("signature", signature), Wrong("mismatch", mismatch),
                      Wrong("junk", junk), bodies}
  BY DEF Faults, FirstFault
<1>2. /\ f.cut > 0 => Error("truncated") \in faults
      /\ order => Error("order") \in faults
      /\ unsupported => Error("unsupported") \in faults
      /\ section => Error("section") \in faults
      /\ duplicate => Error("duplicate") \in faults
      /\ type => Error("type") \in faults
      /\ signature => Error("signature") \in faults
      /\ junk => Error("junk") \in faults
      /\ mismatch => Error("mismatch") \in faults
      /\ FaultyBodies(f, validation) # {} => FirstFault(f, validation) \in faults
  <2> HIDE DEF faults, order, unsupported, section, duplicate, type, signature, mismatch, junk
  <2> QED
    BY <1>1
<1> HIDE DEF faults
<1> QED
  BY <1>2 DEF faults

\* A file with nothing wrong with its sections, its length and its bodies has
\* no fault.
LEMMA NoFaults ==
  ASSUME NEW f \in Files, NEW validation,
         f.cut = 0, \A i \in 1..Len(f.sections) : Sound(f, i, validation),
         Len(Bodies(f)) = Len(Signatures(f)), FaultyBodies(f, validation) = {}
  PROVE  Faults(f, validation) = {}
<1> DEFINE s == f.sections
           n == Len(f.sections)
<1>0. DOMAIN s = 1..n /\ n \in Nat
  BY FileFacts
<1>1. \A i \in DOMAIN s : Placed(f, i) /\ s[i].kind # "unknown" /\ ~Refused(s[i], validation)
  BY <1>0 DEF Sound, Proper
<1>2. \A i \in DOMAIN s : ~(s[i].junk > 0)
  BY <1>0 DEF Sound
<1>3. ASSUME NEW i \in DOMAIN s, NEW j \in DOMAIN s, i < j, s[i].kind = s[j].kind
      PROVE  ~(s[i].kind = "code" \/ (s[i].kind \in CheckedKinds /\ s[i].items # <<>>))
  <2>1. i \in 1 .. j - 1
    BY <1>0, <1>3
  <2>2. Sound(f, j, validation)
    BY <1>0
  <2> QED
    BY <1>3, <2>1, <2>2 DEF Sound
<1>4. ASSUME NEW i \in DOMAIN s, s[i].kind = "function", NEW ty \in Range(s[i].items)
      PROVE  ~(ty >= Len(ItemsUpTo(f, "type", i - 1)))
  <2> DEFINE types == Len(ItemsUpTo(f, "type", i - 1))
  <2>1. ty < types
    BY <1>0, <1>4 DEF Sound
  <2>2. ty \in Nat
    BY <1>0, <1>4, SectionFacts DEF IsSection
  <2>3. types \in Nat
    <3>1. i - 1 \in 0..n
      BY <1>0
    <3> QED
      BY <3>1, ItemsUpToType, LenProperties
  <2> HIDE DEF types
  <2>4. ~(ty >= types)
    BY <2>1, <2>2, <2>3
  <2> QED
    BY <2>4 DEF types
<1>5. ASSUME NEW i \in DOMAIN s, s[i].kind = "code"
      PROVE  ~(Len(s[i].items) > Len(ItemsUpTo(f, "function", i - 1)))
  <2> DEFINE declared == Len(ItemsUpTo(f, "function", i - 1))
             given == Len(s[i].items)
  <2>1. given <= declared
    BY <1>0, <1>5 DEF Sound
  <2>2. declared \in Nat
    <3>1. i - 1 \in 0..n
      BY <1>0
    <3> QED
      BY <3>1, ItemsUpToType, LenProperties
  <2>3. given \in Nat
    BY <1>0, SectionFacts, LenProperties
  <2> HIDE DEF given, declared
  <2>4. ~(given > declared)
    BY <2>1, <2>2, <2>3
  <2> QED
    BY <2>4 DEF given, declared
<1>6. ~(Len(Bodies(f)) < Len(Signatures(f)))
  <2> DEFINE m == Len(Bodies(f))
  <2>1. m \in Nat
    BY ItemsOfType, LenProperties DEF Bodies
  <2> HIDE DEF m
  <2>2. ~(m < m)
    BY <2>1
  <2> QED
    BY <2>2 DEF m
<1> DEFINE Wrong(class, condition) == IF condition THEN {Error(class)} ELSE {}
<1>7. \A class : Wrong(class, FALSE) = {}
  OBVIOUS
<1>8. Faults(f, validation) = UNION {Wrong("truncated", FALSE), Wrong("order", FALSE),
        Wrong("unsupported", FALSE), Wrong("section", FALSE), Wrong("duplicate", FALSE),
        Wrong("type", FALSE), Wrong("signature", FALSE), Wrong("mismatch", FALSE),
        Wrong("junk", FALSE), {}}
  BY <1>1, <1>2, <1>3, <1>4, <1>5, <1>6 DEF Faults
<1> QED
  BY <1>8

-----------------------------------------------------------------------------
(***************************************************************************)
(* Which errors the operations of the reader leave.                        *)
(***************************************************************************)

\* A section that is refused, and one that is taken.
LEMMA PayloadJudged ==
  ASSUME NEW r \in Readers, r.err = NoError, NEW s, NEW validation,
         NEW q, q = process_payload(r, s, validation)
  PROVE  /\ Failed(q) =>
              \/ s.kind = "unknown" /\ q.err = Error("unsupported")
              \/ s.kind \in CheckedKinds /\ r.lists[s.kind] # <<>> /\ q.err = Error("duplicate")
              \/ s.kind = "datacount" /\ r.lists["data"] # <<>>
              \/ Refused(s, validation) /\ q.err = Error("section")
              \/ /\ s.kind = "function" /\ q.err = Error("type")
                 /\ \E ty \in Range(s.items) : ty >= Len(r.lists["type"])
         /\ ~Failed(q) /\ s.kind # "custom" => ~Refused(s, validation)
<1>0. \A e : Fail(r, e).err = e
  BY FailKeeps
<1>00. \A class \in Classes \ {"none"} : Failed(Fail(r, Error(class)))
  BY FailClassFails
<1>1. CASE s.kind \in {"custom", "unknown"}
  <2>1. s.kind = "custom" => ~Failed(q)
    <3>1. ASSUME s.kind = "custom" PROVE q = r
      BY <3>1 DEF process_payload, check_section, CheckedKinds
    <3> QED
      BY <3>1 DEF Failed
  <2>2. s.kind = "unknown" => q = Fail(r, Error("unsupported"))
    <3>1. ASSUME s.kind = "unknown" PROVE q = Fail(r, Error("unsupported"))
      <4>1. s.kind # "custom"
        BY <3>1
      <4> QED
        BY <3>1, <4>1 DEF process_payload, check_section, CheckedKinds
    <3> QED
      BY <3>1
  <2>3. "unsupported" \in Classes \ {"none"}
    BY DEF Classes
  <2>4. s.kind = "unknown" => Failed(q) /\ q.err = Error("unsupported")
    BY <1>0, <1>00, <2>2, <2>3
  <2> QED
    BY <1>1, <2>1, <2>4
<1>2. CASE s.kind \notin {"custom", "unknown"} /\
             (check_section(r, s) \/ (s.kind = "datacount" /\ r.lists["data"] # <<>>))
  <2>1. q = Fail(r, Error("duplicate"))
    BY <1>2 DEF process_payload
  <2>2. "duplicate" \in Classes \ {"none"}
    BY DEF Classes
  <2>3. Failed(q) /\ q.err = Error("duplicate")
    BY <1>0, <1>00, <2>1, <2>2
  <2> QED
    BY <1>2, <2>3 DEF check_section
<1>3. CASE s.kind \notin {"custom", "unknown"} /\
             ~(check_section(r, s) \/ (s.kind = "datacount" /\ r.lists["data"] # <<>>))
  <2>1. q = IF Refused(s, validation) THEN Fail(r, Error("section"))
            ELSE CASE s.kind \in {"version", "datacount"} -> r
                   [] s.kind = "function" -> function_section(r, s)
                   [] s.kind = "import" -> import_section(r, s)
                   [] OTHER -> [r EXCEPT !.lists[s.kind] = s.items]
    BY <1>3 DEF process_payload
  <2>2. CASE Refused(s, validation)
    <3>1. "section" \in Classes \ {"none"}
      BY DEF Classes
    <3>2. Failed(q) /\ q.err = Error("section")
      BY <1>0, <1>00, <2>1, <2>2, <3>1
    <3> QED
      BY <2>2, <3>2
  <2>3. CASE ~Refused(s, validation) /\ s.kind # "function"
    <3>1. \/ q = r
          \/ q = import_section(r, s)
          \/ q = [r EXCEPT !.lists[s.kind] = s.items]
      BY <2>1, <2>3
    <3>2. import_section(r, s).err = NoError
      BY DEF import_section, Readers
    <3>3. [r EXCEPT !.lists[s.kind] = s.items].err = NoError
      BY DEF Readers
    <3>4. q.err = NoError
      BY <3>1, <3>2, <3>3
    <3>5. ~Failed(q)
      BY <3>4 DEF Failed
    <3> QED
      BY <2>3, <3>5
  <2>4. CASE ~Refused(s, validation) /\ s.kind = "function"
    <3> DEFINE types == Len(r.lists["type"])
               results == [i \in DOMAIN s.items |-> r.lists["type"][s.items[i] + 1]]
               unknown == \E ty \in Range(s.items) : ty >= types
               stored == [r EXCEPT !.lists["function"] = s.items, !.code_results = results]
    <3>1. q = IF unknown THEN Fail(r, Error("type")) ELSE stored
      BY <2>1, <2>4 DEF function_section
    <3>2. stored.err = NoError
      BY DEF Readers
    <3> HIDE DEF stored, unknown
    <3>3. Failed(q) => unknown /\ q.err = Error("type")
      BY <1>0, <3>1, <3>2 DEF Failed
    <3> QED
      BY <2>4, <3>3 DEF unknown
  <2> QED
    BY <2>2, <2>3, <2>4
<1> QED
  BY <1>1, <1>2, <1>3

\* The header of a code section.
LEMMA BeginJudged ==
  ASSUME NEW r \in Readers, r.err = NoError, NEW s, NEW o, NEW cpus,
         NEW q, q = begin_code_section(r, s, o, cpus)
  PROVE  /\ Failed(q) =>
              \/ r.has_code_section /\ q.err = Error("duplicate")
              \/ Refused(s, o.validation) /\ q.err = Error("section")
         /\ ~Failed(q) => ~Refused(s, o.validation)
<1> DEFINE begun == [r EXCEPT !.has_code_section = TRUE,
                              !.deferred = should_use_parallel(o, Len(s.items), SizeOf(s), cpus)]
<1>1. q = IF r.has_code_section THEN Fail(r, Error("duplicate"))
          ELSE IF Refused(s, o.validation) THEN Fail(r, Error("section")) ELSE begun
  BY DEF begin_code_section
<1>2. begun.err = NoError
  BY DEF Readers
<1>3. \A e : Fail(r, e).err = e
  BY FailKeeps
<1>4. \A class \in Classes \ {"none"} : Failed(Fail(r, Error(class)))
  BY FailClassFails
<1>5. "duplicate" \in Classes \ {"none"} /\ "section" \in Classes \ {"none"}
  BY DEF Classes
<1> HIDE DEF begun
<1> QED
  BY <1>1, <1>2, <1>3, <1>4, <1>5 DEF Failed

\* A body that is lowered at once.
LEMMA InlineJudged ==
  ASSUME NEW r \in Readers, r.err = NoError, NEW b, NEW o,
         NEW q, q = process_inline_code_section_entry(r, b, o)
  PROVE  /\ Failed(q) =>
              \/ Len(r.code) >= Len(r.lists["function"]) /\ q.err = Error("signature")
              \/ Refused(b, o.validation) /\ q.err = <<"function", Len(r.code) + 1>>
         /\ ~Failed(q) => ~Refused(b, o.validation)
<1> DEFINE n == Len(r.code)
           metadata == translation_metadata(r)
           code == Append(r.code, FunctionCode(Job(r, n, b), metadata, r.imported_func_count,
                                               r.imported_memory_count))
           lowered == [r EXCEPT !.metadata = metadata, !.code = code]
           full == n >= Len(r.lists["function"])
<1>1. q = IF full THEN Fail(r, Error("signature"))
          ELSE IF Refused(b, o.validation) THEN Fail(r, <<"function", n + 1>>) ELSE lowered
  BY DEF process_inline_code_section_entry
<1>2. lowered.err = NoError
  BY DEF Readers
<1>3. \A e : Fail(r, e).err = e /\ (e # NoError => Failed(Fail(r, e)))
  BY FailKeeps, FailFails
<1>4. Error("signature") # NoError
  BY ErrorFacts DEF Classes
<1>5. <<"function", n + 1>> # NoError
  <2>1. n \in Nat
    BY LenProperties DEF Readers
  <2>2. n + 1 \in Nat \ {0}
    <3> HIDE DEF n
    <3> QED
      BY <2>1
  <2> HIDE DEF n
  <2> QED
    BY <2>2, ErrorFacts
<1> HIDE DEF lowered, full
<1>6. /\ Failed(q) => \/ full /\ q.err = Error("signature")
                      \/ Refused(b, o.validation) /\ q.err = <<"function", n + 1>>
      /\ ~Failed(q) => ~Refused(b, o.validation)
  BY <1>1, <1>2, <1>3, <1>4, <1>5 DEF Failed
<1> QED
  BY <1>6 DEF full

\* A body that is queued.
LEMMA QueueJudged ==
  ASSUME NEW r \in Readers, r.err = NoError, NEW b, NEW q, q = queue_function(r, b), Failed(q)
  PROVE  Len(r.code) + Len(r.pending) >= Len(r.code_results) /\ q.err = Error("signature")
<1> DEFINE n == Len(r.code) + Len(r.pending)
           full == n >= Len(r.code_results)
           queue == Append(r.pending, Job(r, n, b))
           queued == [r EXCEPT !.pending = queue]
<1>1. q = IF full THEN Fail(r, Error("signature")) ELSE queued
  BY DEF queue_function
<1>2. queued.err = NoError
  BY DEF Readers
<1>3. \A e : Fail(r, e).err = e
  BY FailKeeps
<1> HIDE DEF queued, full
<1>4. full /\ q.err = Error("signature")
  BY <1>1, <1>2, <1>3 DEF Failed
<1> QED
  BY <1>4 DEF full

-----------------------------------------------------------------------------
(***************************************************************************)
(* Sections.                                                               *)
(***************************************************************************)

\* No items up to a section, no items in any section up to it; and the other
\* way round.
LEMMA NoItemsBefore ==
  ASSUME NEW f \in Files, NEW kind, NEW n \in 0..Len(f.sections)
  PROVE  /\ ItemsUpTo(f, kind, n) = <<>> =>
              \A j \in 1..n : f.sections[j].kind = kind => f.sections[j].items = <<>>
         /\ ItemsUpTo(f, kind, n) # <<>> =>
              \E j \in 1..n : f.sections[j].kind = kind /\ f.sections[j].items # <<>>
<1>0. Len(f.sections) \in Nat /\ n \in Nat
  BY FileFacts
<1>1. ASSUME ItemsUpTo(f, kind, n) = <<>>, NEW j \in 1..n, f.sections[j].kind = kind
      PROVE  f.sections[j].items = <<>>
  <2> DEFINE items == f.sections[j].items
             front == ItemsUpTo(f, kind, j - 1)
  <2>1. j \in 1..Len(f.sections) /\ j \in 0..Len(f.sections) /\ j - 1 \in 0..Len(f.sections)
        /\ n \in j..Len(f.sections)
    BY <1>0
  <2>2. ItemsUpTo(f, kind, j) = front \o items
    BY <1>1, <2>1, ItemsUpToNext
  <2>3. Starts(ItemsUpTo(f, kind, j), ItemsUpTo(f, kind, n))
    BY <2>1, ItemsUpToStarts
  <2>4. front \in Seq(AllItems) /\ items \in Seq(AllItems)
    BY <2>1, ItemsUpToType, SectionFacts
  <2>5. Len(front \o items) <= 0
    BY <1>1, <2>2, <2>3 DEF Starts
  <2> HIDE DEF front, items
  <2>6. Len(front) \in Nat /\ Len(items) \in Nat /\ Len(front \o items) = Len(front) + Len(items)
    BY <2>4, LenProperties, ConcatProperties
  <2>7. Len(items) = 0
    BY <2>5, <2>6
  <2>8. items = <<>>
    BY <2>4, <2>7, EmptySeq
  <2> QED
    BY <2>8 DEF items
<1>2. ASSUME ~ \E j \in 1..n : f.sections[j].kind = kind /\ f.sections[j].items # <<>>
      PROVE  ItemsUpTo(f, kind, n) = <<>>
  <2> DEFINE T == {m \in 0..n : ItemsUpTo(f, kind, m) = <<>>}
  <2>1. 0 \in T
    BY <1>0, ItemsUpToNone
  <2>2. ASSUME NEW m \in 1..n, m - 1 \in T PROVE m \in T
    <3>1. m \in 1..Len(f.sections)
      BY <1>0
    <3>2. ItemsUpTo(f, kind, m - 1) = <<>>
      BY <2>2
    <3>3. f.sections[m].kind = kind => f.sections[m].items = <<>>
      BY <1>2
    <3>4. <<>> \o <<>> = <<>>
      OBVIOUS
    <3>5. CASE f.sections[m].kind = kind
      <4>1. ItemsUpTo(f, kind, m) = ItemsUpTo(f, kind, m - 1) \o f.sections[m].items
        BY <3>1, <3>5, ItemsUpToNext
      <4>2. ItemsUpTo(f, kind, m) = <<>> \o <<>>
        BY ONLY <4>1, <3>2, <3>3, <3>5, Zenon
      <4> QED
        BY <1>0, <3>4, <4>2
    <3>6. CASE f.sections[m].kind # kind
      <4>1. ItemsUpTo(f, kind, m) = ItemsUpTo(f, kind, m - 1)
        BY <3>1, <3>6, ItemsUpToNext
      <4> QED
        BY <1>0, <3>2, <4>1
    <3> QED
      BY <3>5, <3>6
  <2>3. \A m \in 0..n : m \in T
    <3> HIDE DEF T
    <3> QED
      BY <1>0, <2>1, <2>2, UpTo
  <2> QED
    BY <1>0, <2>3
<1> QED
  BY <1>1, <1>2

\* A data section is behind the section with the number of its segments.
LEMMA CountBeforeData ==
  ASSUME NEW f \in Files, NEW n \in 1..Len(f.sections), Placed(f, n),
         f.sections[n].kind = "datacount", NEW i \in 1..(n - 1)
  PROVE  f.sections[i].kind # "data"
<1>1. ASSUME NEW kind, NEW m \in DOMAIN SectionOrder, SectionOrder[m] = kind,
             \A j \in DOMAIN SectionOrder : SectionOrder[j] = kind => j = m
      PROVE  Rank(kind) = m
  BY <1>1 DEF Rank
<1>2. /\ DOMAIN SectionOrder = 1..13
      /\ SectionOrder[1] = "version" /\ SectionOrder[2] = "type" /\ SectionOrder[3] = "import"
      /\ SectionOrder[4] = "function" /\ SectionOrder[5] = "table" /\ SectionOrder[6] = "memory"
      /\ SectionOrder[7] = "global" /\ SectionOrder[8] = "export" /\ SectionOrder[9] = "start"
      /\ SectionOrder[10] = "element" /\ SectionOrder[11] = "datacount"
      /\ SectionOrder[12] = "code" /\ SectionOrder[13] = "data"
  BY DEF SectionOrder
<1>34. \A j \in 1..13 : \/ j = 1 \/ j = 2 \/ j = 3 \/ j = 4 \/ j = 5 \/ j = 6 \/ j = 7 \/ j = 8
                        \/ j = 9 \/ j = 10 \/ j = 11 \/ j = 12 \/ j = 13
  OBVIOUS
<1>3. \A j \in 1..13 : (SectionOrder[j] = "datacount") <=> (j = 11)
  BY <1>2, <1>34
<1>4. \A j \in 1..13 : (SectionOrder[j] = "data") <=> (j = 13)
  BY <1>2, <1>34
<1>5. 11 \in 1..13 /\ 13 \in 1..13
  OBVIOUS
<1>6. Rank("datacount") = 11 /\ Rank("data") = 13
  BY <1>1, <1>2, <1>3, <1>4, <1>5
<1>7. SUFFICES ASSUME f.sections[i].kind = "data" PROVE FALSE
  OBVIOUS
<1>8. Rank("data") < Rank("datacount")
  BY <1>7 DEF Placed
<1> QED
  BY <1>6, <1>8

\* A section that the reader takes has no fault.
LEMMA SoundSection ==
  ASSUME Types, Position, Reading, pc = "parse", HasPayload, ~AtEnd, ~InCode,
         Section.kind # "code", NEW r, r = process_payload(reader, Section, options.validation),
         ~Failed(r)
  PROVE  Sound(file, parser.section, options.validation)
<1> DEFINE n == parser.section
           validation == options.validation
<1>1. /\ file \in Files /\ n \in 1..Len(file.sections) /\ IsSection(Section)
      /\ Section.items \in Seq(AllItems) /\ IsReader(reader) /\ Section = file.sections[n]
      /\ reader \in Readers /\ reader.err = NoError /\ Len(file.sections) \in Nat
  BY AtSection DEF Types, IsReader, Section, Reading
<1>2. Stored(r, reader, Section)
  BY <1>1, PayloadStores
<1>3. Section.kind # "custom" => ~Refused(Section, validation)
  BY <1>1, PayloadJudged
<1>4. ~Refused(Section, validation)
  <2>1. Section.kind = "custom" => Section.fault = "none"
    BY <1>1 DEF IsSection
  <2> QED
    BY <1>3, <2>1 DEF Refused
<1>5. Proper(file, n, validation)
  BY <1>1, <1>2, <1>4, InPlace DEF Proper, Stored
<1>6. Section.junk = 0
  BY <1>1 DEF IsSection
<1>7. \A k \in StoredKinds : reader.lists[k] = ItemsUpTo(file, k, n - 1)
  BY DEF Reading, Lists
<1>8. n - 1 \in 0..Len(file.sections)
  BY <1>1
<1>9. ASSUME NEW j \in 1 .. n - 1, file.sections[j].kind = Section.kind, Section.kind \in CheckedKinds
      PROVE  file.sections[j].items = <<>>
  <2>1. ItemsUpTo(file, Section.kind, n - 1) = <<>>
    BY <1>2, <1>7, <1>9 DEF Stored, StoredKinds
  <2> QED
    BY <1>1, <1>8, <1>9, <2>1, NoItemsBefore
<1>10. ASSUME Section.kind = "function", NEW ty \in Range(Section.items)
       PROVE  ty < Len(ItemsUpTo(file, "type", n - 1))
  <2>1. PICK i \in DOMAIN Section.items : ty = Section.items[i]
    BY <1>10 DEF Range
  <2>2. reader.lists["type"] = ItemsUpTo(file, "type", n - 1)
    BY <1>7 DEF StoredKinds, CheckedKinds
  <2> QED
    BY <1>2, <1>10, <2>1, <2>2 DEF Stored
<1> QED
  BY <1>1, <1>5, <1>6, <1>9, <1>10 DEF Sound

\* A code section whose bodies all have a function has no fault of its own.
LEMMA SoundCode ==
  ASSUME Types, Reading, ~AtEnd, Section.kind = "code", ~CodeBefore(file, parser),
         Proper(file, parser.section, options.validation), Section.junk = 0,
         Len(Section.items) <= Len(reader.lists["function"])
  PROVE  Sound(file, parser.section, options.validation)
<1> DEFINE n == parser.section
<1>1. Section = file.sections[n]
  BY DEF Section
<1>2. \A j \in 1 .. n - 1 : file.sections[j].kind # "code"
  BY DEF CodeBefore
<1>3. reader.lists["function"] = ItemsUpTo(file, "function", n - 1)
  BY DEF Reading, Lists, StoredKinds, CheckedKinds
<1> QED
  BY <1>1, <1>2, <1>3 DEF Sound

\* Where a file breaks off: before the end of a section that it has, and not
\* at its end.
LEMMA CutShort ==
  ASSUME Types, ~AtEnd, read = FileBytes(file), read < BytesUpTo(file, parser.section)
  PROVE  file.cut > 0
<1> DEFINE n == parser.section
           len == Len(file.sections)
           here == [i \in 1..n |-> SectionBytes(file.sections[i])]
           all == [i \in 1..len |-> SectionBytes(file.sections[i])]
<1>1. file \in Files /\ n \in 1..len /\ len \in Nat /\ file.cut \in Nat /\ read \in Nat
      /\ DOMAIN file.sections = 1..len
  BY AtSection, FileFacts DEF Types
<1>2. n \in 0..len /\ len \in 0..len
  BY <1>1
<1>3. /\ here \in Seq(Nat) /\ Len(here) = n /\ BytesUpTo(file, n) \in Nat
      /\ all \in Seq(Nat) /\ Len(all) = len /\ BytesUpTo(file, len) \in Nat
  BY <1>1, <1>2, SectionSums
<1>4. \A i \in 1..Len(here) : here[i] = all[i]
  BY <1>1, <1>3
<1>5. Len(here) <= Len(all)
  BY <1>1, <1>3
<1>6. BytesUpTo(file, n) <= BytesUpTo(file, len)
  <2>1. Sum(here) <= Sum(all)
    <3> HIDE DEF here, all
    <3> QED
      BY <1>3, <1>4, <1>5, SumGrows
  <2> QED
    BY <2>1 DEF BytesUpTo
<1>7. FileBytes(file) = BytesUpTo(file, len) - file.cut
  BY <1>1 DEF FileBytes, BytesUpTo
<1> QED
  BY <1>1, <1>3, <1>6, <1>7

\* The next payload does not go beyond its section.
LEMMA NeededInSection ==
  ASSUME Types, Position, pc = "parse", ~AtEnd, ~Leftover
  PROVE  /\ Needed \in Nat /\ offset \in Nat /\ BytesUpTo(file, parser.section) \in Nat
         /\ offset + Needed <= BytesUpTo(file, parser.section)
<1> DEFINE n == parser.section
           front == BytesUpTo(file, n - 1)
           size == SizeOf(Section)
<1>1. /\ file \in Files /\ n \in 1..Len(file.sections) /\ Len(file.sections) \in Nat
      /\ IsSection(Section) /\ Section = file.sections[n] /\ offset \in Nat
  BY AtSection DEF Types, Section
<1>2. Needed \in Nat
  BY NeededType
<1>3. n - 1 \in 0..Len(file.sections) /\ n \in 0..Len(file.sections)
  BY <1>1
<1>4. front \in Nat /\ size \in Nat /\ BytesUpTo(file, n) \in Nat
  BY <1>1, <1>3, SectionSums, SizeFacts
<1>5. BytesUpTo(file, n) = front + (1 + size)
  BY <1>1, BytesNext DEF SectionBytes
<1>6. offset = Before(file, parser)
  BY DEF Position
<1>7. offset + Needed <= front + (1 + size)
  <2>1. CASE ~InCode
    <3>1. offset = front + 0
      BY <1>6, <2>1 DEF Before, InCode, AtEnd
    <3>2. Needed = 1 \/ Needed = 1 + size
      BY <2>1 DEF Needed, SectionBytes
    <3> HIDE DEF front, size
    <3> QED
      BY <1>2, <1>4, <3>1, <3>2
  <2>2. CASE InCode
    <3> DEFINE m == parser.body
               len == Len(Section.items)
               first == [i \in 1..m |-> BodyBytes(Section.items[i])]
               bodies == [i \in 1..len |-> BodyBytes(Section.items[i])]
               before == BodyBytesUpTo(Section, m - 1)
    <3>1. Section.kind = "code" /\ m \in 1..len /\ len \in Nat
      BY <2>2, AtBody
    <3>2. m - 1 \in 0..len /\ m \in 0..len /\ len \in 0..len /\ m - 1 \in Nat
      BY <3>1
    <3>3. offset = front + (1 + before)
      BY <1>1, <1>6, <2>2 DEF Before, InCode, AtEnd
    <3>4. Needed = BodyBytes(Section.items[m])
      BY <2>2 DEF Needed, InCode
    <3>5. BodyBytesUpTo(Section, m) = before + Needed
      BY <1>1, <3>1, <3>4, BodyBytesNext
    <3>6. /\ first \in Seq(Nat) /\ Len(first) = m /\ bodies \in Seq(Nat) /\ Len(bodies) = len
          /\ before \in Nat /\ BodyBytesUpTo(Section, m) \in Nat
          /\ BodyBytesUpTo(Section, len) \in Nat
      <4>1. m \in 0..Len(Section.items) /\ len \in 0..Len(Section.items)
            /\ m - 1 \in 0..Len(Section.items)
        BY <3>2
      <4> DEFINE back == m - 1
      <4>2. first \in Seq(Nat) /\ Len(first) = m /\ BodyBytesUpTo(Section, m) \in Nat
        BY <1>1, <3>1, <4>1, BodySums, Zenon
      <4>3. bodies \in Seq(Nat) /\ Len(bodies) = len /\ BodyBytesUpTo(Section, len) \in Nat
        <5> HIDE DEF len
        <5>1. len \in 0..Len(Section.items)
          BY <4>1
        <5> QED
          BY <1>1, <3>1, <5>1, BodySums, Zenon
      <4>4. before \in Nat
        <5>1. back \in 0..Len(Section.items)
          BY <4>1
        <5> HIDE DEF back
        <5>2. BodyBytesUpTo(Section, back) \in Nat
          BY <1>1, <3>1, <5>1, BodySums
        <5> QED
          BY <5>2 DEF back
      <4> QED
        BY <4>2, <4>3, <4>4
    <3>7. BodyBytesUpTo(Section, m) <= BodyBytesUpTo(Section, len)
      <4>1. Len(first) <= Len(bodies) /\ \A i \in 1..Len(first) : first[i] = bodies[i]
        BY <3>1, <3>6
      <4>2. Sum(first) <= Sum(bodies)
        <5> HIDE DEF first, bodies
        <5> QED
          BY <3>6, <4>1, SumGrows
      <4> QED
        BY <4>2 DEF BodyBytesUpTo
    <3>8. size = BodyBytesUpTo(Section, len) + Section.junk
      BY <1>1, <3>1, CodeSize
    <3>9. Section.junk \in Nat
      BY <1>1 DEF IsSection
    <3> DEFINE here == BodyBytesUpTo(Section, m)
               all == BodyBytesUpTo(Section, len)
               need == Needed
               junk == Section.junk
               at == offset
    <3>10. /\ front \in Nat /\ size \in Nat /\ before \in Nat /\ here \in Nat /\ all \in Nat
           /\ junk \in Nat /\ need \in Nat /\ at \in Nat
           /\ at = front + (1 + before) /\ here = before + need /\ here <= all
           /\ size = all + junk
      BY <1>1, <1>2, <1>4, <3>3, <3>5, <3>6, <3>7, <3>8, <3>9
    <3> HIDE DEF front, size, before, here, all, need, junk, at
    <3>11. at + need <= front + (1 + size)
      BY <3>10
    <3> QED
      BY <3>11 DEF at, need
  <2> QED
    BY <2>1, <2>2
<1> QED
  BY <1>1, <1>2, <1>4, <1>5, <1>7

\* At the end of the sections, a file that has been read has all its bytes.
LEMMA WholeAtEnd ==
  ASSUME Types, Position, pc = "parse", AtEnd, eof
  PROVE  file.cut = 0 /\ Buffered = 0
<1> DEFINE len == Len(file.sections)
<1>1. file \in Files /\ len \in Nat /\ file.cut \in Nat /\ DOMAIN file.sections = 1..len
      /\ parser.section \in Nat
  BY FileFacts DEF Types
<1>2. parser.section - 1 = len
  BY <1>1 DEF Position, WellPlaced, AtEnd
<1>3. len \in 0..len
  BY <1>1
<1>4. BytesUpTo(file, len) \in Nat
  BY <1>1, <1>3, SectionSums
<1>5. offset = BytesUpTo(file, len) + 0
  BY <1>2 DEF Position, Before, AtEnd
<1>6. FileBytes(file) = BytesUpTo(file, len) - file.cut
  BY <1>1 DEF FileBytes, BytesUpTo
<1>7. offset <= read /\ read = FileBytes(file)
  BY DEF Position
<1>8. file.cut = 0 /\ read - offset = 0
  <2> HIDE DEF len
  <2> QED
    BY <1>1, <1>4, <1>5, <1>6, <1>7
<1> QED
  BY <1>8 DEF Buffered

-----------------------------------------------------------------------------
(***************************************************************************)
(* What has been passed, from step to step.                                *)
(***************************************************************************)

\* Past a section, and past a body of a code section or its header.
LEMMA SectionPassed ==
  ASSUME Types, Position, ~AtEnd, NEW validation, PassedAt(file, parser, validation),
         Sound(file, parser.section, validation)
  PROVE  PassedAt(file, SectionStart, validation)
<1> DEFINE n == parser.section
<1>1. n \in Nat /\ SectionStart.section - 1 = n /\ ~InCodeAt(file, SectionStart)
  BY CodeBehind DEF Types
<1>2. \A i \in 1 .. n - 1 : Sound(file, i, validation)
  BY DEF PassedAt
<1>3. \A i \in 1 .. n : i \in 1 .. n - 1 \/ i = n
  BY <1>1
<1>4. \A i \in 1 .. n : Sound(file, i, validation)
  BY <1>2, <1>3
<1> QED
  BY <1>1, <1>4 DEF PassedAt

LEMMA BodyPassed ==
  ASSUME Types, Position, ~AtEnd, Section.kind = "code", NEW n \in 0..Len(Section.items),
         NEW validation, PassedAt(file, parser, validation),
         Proper(file, parser.section, validation),
         n = Len(Section.items) /\ Section.junk = 0 => Sound(file, parser.section, validation)
  PROVE  PassedAt(file, FunctionBody(n), validation)
<1>1. CASE FunctionBody(n) = SectionStart /\ n = Len(Section.items) /\ Section.junk = 0
  BY <1>1, SectionPassed
<1>2. CASE FunctionBody(n).section = parser.section
  BY <1>2 DEF PassedAt
<1> QED
  BY <1>1, <1>2, BodyBehind

\* As long as a payload is taken, there is more to take.
LEMMA PayloadNext ==
  ASSUME Position, pc = "parse", HasPayload, ~AtEnd, NEW r, r.end_reached = reader.end_reached
  PROVE  NextPayload(r) = "parse"
<1>1. ~(options.stream /\ eof)
  BY StreamGoesOn
<1>2. ~r.end_reached
  BY DEF Position
<1> QED
  BY <1>1, <1>2 DEF NextPayload

LEMMA ProcessSectionPassed ==
  ASSUME Types, Position, Reading, Passed, ProcessSection
  PROVE  Passed'
<1> DEFINE r == process_payload(reader, Section, options.validation)
<1>1. /\ pc = "parse" /\ HasPayload /\ ~AtEnd /\ ~InCode /\ Section.kind # "code"
      /\ Proceed(r, NextPayload(r)) /\ parser' = SectionStart
      /\ UNCHANGED <<file, options>>
  BY DEF ProcessSection, Consume, input
<1>2. CASE Failed(r)
  BY <1>1, <1>2, Proceeds DEF Passed, Parsed
<1>3. CASE ~Failed(r)
  <2>1. IsReader(reader) /\ IsSection(Section) /\ Section.items \in Seq(AllItems)
    BY <1>1, AtSection DEF Types, IsReader
  <2>2. r.end_reached = reader.end_reached
    BY <1>1, <1>3, <2>1, PayloadStores DEF Stored, SameCode
  <2>3. pc' = "parse"
    BY <1>1, <1>3, <2>2, Proceeds, PayloadNext
  <2>4. Sound(file, parser.section, options.validation)
    BY <1>1, <1>3, SoundSection
  <2>5. PassedAt(file, SectionStart, options.validation)
    BY <1>1, <2>4, SectionPassed DEF Passed
  <2> QED
    BY <1>1, <2>3, <2>5 DEF Passed, Parsed
<1> QED
  BY <1>2, <1>3

LEMMA BeginCodeSectionPassed ==
  ASSUME Types, Position, Reading, Passed, BeginCodeSection
  PROVE  Passed'
<1> DEFINE v == options.validation
<1>1. /\ pc = "parse" /\ HasPayload /\ ~AtEnd /\ ~InCode /\ Section.kind = "code"
      /\ UNCHANGED <<file, options>> /\ parser' = FunctionBody(0)
  BY DEF BeginCodeSection, Consume, input
<1>2. PICK cpus \in Available :
        LET r == begin_code_section(reader, Section, options, cpus) IN
        Proceed(r, IF r.deferred /\ options.stream THEN "section" ELSE NextPayload(r))
  BY DEF BeginCodeSection
<1> DEFINE r == begin_code_section(reader, Section, options, cpus)
<1>3. CASE Failed(r)
  BY <1>2, <1>3, Proceeds DEF Passed, Parsed
<1>4. CASE ~Failed(r)
  <2>1. IsReader(reader) /\ reader \in Readers /\ reader.err = NoError
    BY <1>1 DEF Types, IsReader, Reading
  <2>2. r.end_reached = reader.end_reached /\ ~reader.has_code_section
    BY <1>4, <2>1, BeginCode
  <2>3. pc' \in {"section", "parse"}
    <3>1. NextPayload(r) = "parse"
      BY <1>1, <2>2, PayloadNext
    <3> QED
      BY <1>2, <1>4, <3>1, Proceeds
  <2>4. Proper(file, parser.section, v)
    <3>1. ~Refused(Section, v)
      BY <1>4, <2>1, BeginJudged
    <3>2. Placed(file, parser.section)
      BY <1>1, InPlace
    <3> QED
      BY <1>1, <3>1, <3>2 DEF Proper, Section
  <2>5. ~CodeBefore(file, parser)
    BY <2>2 DEF Reading, OneCodeSection
  <2>6. 0 = Len(Section.items) /\ Section.junk = 0 => Sound(file, parser.section, v)
    <3>1. Len(reader.lists["function"]) \in Nat
      BY <2>1, LenProperties DEF Readers, StoredKinds, CheckedKinds
    <3>2. 0 = Len(Section.items) => Len(Section.items) <= Len(reader.lists["function"])
      BY <3>1
    <3> QED
      BY <1>1, <2>4, <2>5, <3>2, SoundCode
  <2>7. 0 \in 0..Len(Section.items)
    BY <1>1, AtSection, LenProperties
  <2>8. PassedAt(file, FunctionBody(0), v)
    BY <1>1, <2>4, <2>6, <2>7, BodyPassed DEF Passed
  <2> QED
    BY <1>1, <2>3, <2>8 DEF Passed, Parsed
<1> QED
  BY <1>3, <1>4

\* The bodies of the code section that have been taken.
LEMMA BodiesTaken ==
  ASSUME Types, Position, Reading, Pool, KnownFunctions, pc = "parse", InCode, ~Leftover
  PROVE  /\ Len(reader.code) \in Nat /\ Len(reader.pending) \in Nat
         /\ Len(reader.code) + Len(reader.pending) = parser.body - 1
         /\ Len(BodiesBefore(file, parser)) = parser.body - 1
         /\ ItemsUpTo(file, "code", parser.section - 1) = <<>>
<1> DEFINE items == Section.items
           n == parser.body
           len == Len(Section.items)
           front == SubSeq(Section.items, 1, n - 1)
<1>1. /\ ~AtEnd /\ Section.kind = "code" /\ n \in 1..len /\ len \in Nat /\ items \in Seq(AllBodies)
      /\ file \in Files /\ parser.section \in 1..Len(file.sections) /\ Len(file.sections) \in Nat
      /\ reader \in Readers
  BY AtBody, AtSection DEF Types
<1>2. ItemsUpTo(file, "code", parser.section - 1) = <<>>
  <2>1. \A i \in 1..(parser.section - 1) : file.sections[i].kind # "code"
    BY CodeHere DEF Reading, OneCodeSection, CodeBefore
  <2>2. parser.section - 1 \in 0..Len(file.sections)
    BY <1>1
  <2> QED
    BY <1>1, <2>1, <2>2, NoItems
<1>3. Len(BodiesBefore(file, parser)) = n - 1
  <2>1. n - 1 \in 0..len
    BY <1>1
  <2>2. front \in Seq(AllBodies) /\ Len(front) = n - 1
    <3> DEFINE back == n - 1
    <3>1. back \in 0..Len(items)
      BY <2>1
    <3> HIDE DEF back, items
    <3>2. SubSeq(items, 1, back) \in Seq(AllBodies) /\ Len(SubSeq(items, 1, back)) = back
      BY <1>1, <3>1, Parted
    <3> QED
      BY <3>2 DEF back, items
  <2>3. BodiesBefore(file, parser) = ItemsUpTo(file, "code", parser.section - 1) \o front
    BY <1>1, BodiesHere
  <2> HIDE DEF front
  <2>4. <<>> \o front = front
    BY <2>2
  <2>5. BodiesBefore(file, parser) = front
    BY <1>2, <2>3, <2>4
  <2> QED
    BY <2>2, <2>5
<1>4. Len(Known) = n - 1
  BY <1>3 DEF KnownFunctions
<1>5. Known = reader.code \o LoweredWith(reader, reader.pending)
  BY KnownReading
<1>6. reader.code \in Seq(Codes) /\ reader.pending \in Seq(Jobs)
  BY <1>1 DEF Readers
<1>7. /\ LoweredWith(reader, reader.pending) \in Seq(Codes)
      /\ Len(LoweredWith(reader, reader.pending)) = Len(reader.pending)
  BY <1>1, <1>6, LoweredType
<1>8. Len(Known) = Len(reader.code) + Len(reader.pending)
  <2> DEFINE code == reader.code
             lowered == LoweredWith(reader, reader.pending)
  <2>1. code \in Seq(Codes) /\ lowered \in Seq(Codes) /\ Known = code \o lowered
        /\ Len(lowered) = Len(reader.pending)
    BY <1>5, <1>6, <1>7
  <2> HIDE DEF code, lowered
  <2>2. Len(code \o lowered) = Len(code) + Len(lowered)
    BY <2>1, ConcatProperties
  <2>3. Len(Known) = Len(code) + Len(reader.pending)
    BY ONLY <2>1, <2>2, Zenon
  <2> QED
    BY <2>3 DEF code
<1> QED
  BY <1>2, <1>3, <1>4, <1>6, <1>8, LenProperties

LEMMA CodeSectionEntryPassed ==
  ASSUME Types, Position, Reading, Pool, KnownFunctions, Passed, CodeSectionEntry
  PROVE  Passed'
<1> DEFINE v == options.validation
           n == parser.body
           declared == Len(reader.lists["function"])
           taken == Len(reader.code)
           queued == Len(reader.pending)
<1>1. /\ pc = "parse" /\ InCode /\ ~AtEnd /\ ~Leftover /\ HasPayload
      /\ parser' = FunctionBody(n) /\ UNCHANGED <<file, options>>
  BY EntryCases DEF CodeSectionEntry
<1>2. CASE Failed(reader')
  BY <1>1, <1>2, EntryCases DEF Passed, Parsed
<1>3. CASE ~Failed(reader')
  <2>1. /\ Section.kind = "code" /\ n \in 1..Len(Section.items) /\ Len(Section.items) \in Nat
        /\ Section.items[n] \in AllBodies
    BY <1>1, AtBody
  <2>2. /\ taken \in Nat /\ queued \in Nat /\ taken + queued = n - 1
        /\ ItemsUpTo(file, "code", parser.section - 1) = <<>>
    BY <1>1, BodiesTaken
  <2>3. /\ IsReader(reader) /\ reader \in Readers /\ reader.err = NoError /\ declared \in Nat
    BY <1>1, LenProperties DEF Types, IsReader, Reading, Readers, StoredKinds, CheckedKinds
  <2>4. ~reader.deferred => reader.pending = <<>>
    BY DEF Reading, OneCodeSection
  <2>5. taken + queued < declared /\ reader'.end_reached = reader.end_reached
    <3>1. CASE reader' = process_inline_code_section_entry(reader, Section.items[n], options)
               /\ ~reader.deferred
      <4>1. taken < declared /\ reader'.end_reached = reader.end_reached
        BY <1>3, <2>3, <3>1, InlineAppends
      <4>2. queued = 0
        BY <2>4, <3>1
      <4> HIDE DEF taken, queued, declared
      <4> QED
        BY <2>2, <2>3, <4>1, <4>2
    <3>2. CASE reader' = queue_function(reader, Section.items[n])
      BY <1>3, <2>3, <3>2, QueueAppends DEF SameButPending
    <3> QED
      BY <1>3, <3>1, <3>2, EntryCases
  <2>6. n <= declared
    <3> HIDE DEF taken, queued, declared
    <3> QED
      BY <2>1, <2>2, <2>3, <2>5
  <2>7. pc' = "parse"
    <3>1. \E r : r.end_reached = reader.end_reached /\ pc' = NextPayload(r)
      <4>1. PICK r : Proceed(r, NextPayload(r))
        BY DEF CodeSectionEntry
      <4>2. reader' = r /\ pc' = NextPayload(r)
        BY <1>3, <4>1, Proceeds
      <4> QED
        BY <2>5, <4>2
    <3> QED
      BY <1>1, <3>1, PayloadNext
  <2>8. Proper(file, parser.section, v)
    BY <1>1, CodeHere DEF Passed, PassedAt
  <2>9. ~CodeBefore(file, parser)
    BY <1>1, CodeHere DEF Reading, OneCodeSection
  <2>10. n = Len(Section.items) /\ Section.junk = 0 => Sound(file, parser.section, v)
    BY <1>1, <2>1, <2>6, <2>8, <2>9, SoundCode
  <2>11. n \in 0..Len(Section.items)
    BY <2>1
  <2>12. PassedAt(file, FunctionBody(n), v)
    BY <1>1, <2>1, <2>8, <2>10, <2>11, BodyPassed DEF Passed
  <2> QED
    BY <1>1, <2>7, <2>12 DEF Passed, Parsed
<1> QED
  BY <1>2, <1>3

LEMMA QueueSectionPassed ==
  ASSUME Types, Position, Reading, Passed, QueueSection
  PROVE  Passed'
<1> DEFINE v == options.validation
<1>1. /\ pc = "section" /\ InCode /\ ~AtEnd /\ Section.kind = "code" /\ parser' = SectionStart
      /\ UNCHANGED <<file, options>> /\ pc' = IF Failed(reader') THEN "done" ELSE "parse"
  BY QueueSectionFacts
<1>2. CASE Failed(reader')
  BY <1>1, <1>2 DEF Passed, Parsed
<1>3. CASE ~Failed(reader')
  <2>1. PICK m \in 0..Len(Section.items) :
          /\ QueuedUpTo(reader', reader, Section.items, m)
          /\ ~Failed(reader') => m = Len(Section.items) /\ Section.junk = 0
    BY QueueSectionFacts
  <2>2. Len(Section.items) <= Len(reader.lists["function"]) /\ Section.junk = 0
    BY <1>3, <2>1 DEF QueuedUpTo
  <2>3. Proper(file, parser.section, v) /\ ~CodeBefore(file, parser)
    BY <1>1, CodeHere DEF Passed, PassedAt, Reading, OneCodeSection
  <2>4. Sound(file, parser.section, v)
    BY <1>1, <2>2, <2>3, SoundCode
  <2>5. PassedAt(file, SectionStart, v)
    BY <1>1, <2>4, SectionPassed DEF Passed
  <2> QED
    BY <1>1, <1>3, <2>5 DEF Passed, Parsed
<1> QED
  BY <1>2, <1>3

LEMMA ProcessEndPassed ==
  ASSUME Types, Position, Passed, ProcessEnd
  PROVE  Passed'
<1>1. /\ pc = "parse" /\ AtEnd /\ pc' \in {"pending", "done"} /\ UNCHANGED <<file, options, parser>>
      /\ pc' = "pending" => reader'.end_reached
  BY ProcessEndFacts
<1>2. eof
  BY <1>1 DEF ProcessEnd, HasPayload
<1>3. file.cut = 0
  BY <1>1, <1>2, WholeAtEnd
<1> QED
  BY <1>1, <1>3 DEF Passed, Parsed

LEMMA PassedStep ==
  ASSUME Types, Position, pc # "done" => Reading, Pool, KnownFunctions, Passed, [Next]_vars
  PROVE  Passed'
<1>1. CASE pc' = "done"
  BY <1>1 DEF Passed, Parsed
<1>2. CASE UNCHANGED vars
  BY <1>2 DEF Passed, vars, input, stream
<1> SUFFICES ASSUME pc' # "done", Next PROVE Passed'
  BY <1>1, <1>2
<1>3. pc # "done"
  BY DEF Next, CallingThread, ReadPayloads, ProcessPending, Fill, ParserFails, ProcessSection,
         BeginCodeSection, CodeSectionEntry, ProcessEnd, FillSection, QueueSection,
         NothingPending, SplitPending, SpawnWorker, AllSpawned, JoinWorker, AllJoined,
         LeaveScope, Finish, ReadFails, ProcessJob, Returned, vars
<1>4. ASSUME UNCHANGED <<file, options, parser>>, pc' \in Parsed => pc \in Parsed,
             reader'.end_reached = reader.end_reached
      PROVE  Passed'
  BY <1>3, <1>4 DEF Passed
<1>5. CASE Fill \/ FillSection
  <2>1. UNCHANGED <<file, options, parser, reader, pc>>
    BY <1>5 DEF Fill, FillSection, Return, input
  <2> QED
    BY <1>4, <2>1
<1>6. CASE ProcessSection
  BY <1>3, <1>6, ProcessSectionPassed
<1>7. CASE BeginCodeSection
  BY <1>3, <1>7, BeginCodeSectionPassed
<1>8. CASE CodeSectionEntry
  BY <1>3, <1>8, CodeSectionEntryPassed
<1>9. CASE ProcessEnd
  BY <1>9, ProcessEndPassed
<1>10. CASE QueueSection
  BY <1>3, <1>10, QueueSectionPassed
<1>11. CASE NothingPending \/ SplitPending \/ SpawnWorker \/ AllSpawned
            \/ \E w \in Threads : ProcessJob(w)
  <2>1. UNCHANGED <<file, options, parser>>
    BY <1>11 DEF NothingPending, SplitPending, SpawnWorker, AllSpawned, ProcessJob, input, stream
  <2>2. pc' \in Parsed => pc \in Parsed
    BY <1>11 DEF NothingPending, SplitPending, SpawnWorker, AllSpawned, ProcessJob, Parsed
  <2>3. reader'.end_reached = reader.end_reached
    BY <1>11, <1>3, SplitReader
       DEF NothingPending, SpawnWorker, AllSpawned, ProcessJob
  <2> QED
    BY <1>4, <2>1, <2>2, <2>3
<1>12. CASE JoinWorker \/ AllJoined
  <2>1. UNCHANGED <<file, options, parser>> /\ pc = "join"
        /\ \/ reader' = reader
           \/ \E e : reader' = Fail(reader, e)
           \/ reader' = [reader EXCEPT !.code = @ \o codes]
    BY <1>12 DEF JoinWorker, AllJoined, input, stream
  <2>2. reader'.end_reached = reader.end_reached
    BY <2>1 DEF Types, Readers, Fail
  <2> QED
    BY <1>4, <2>1, <2>2 DEF Parsed
<1>13. CASE ParserFails \/ ReadFails \/ LeaveScope \/ Finish \/ Returned
  BY <1>13, <1>3 DEF ParserFails, ReadFails, LeaveScope, Finish, Returned, Return
<1> QED
  BY <1>5, <1>6, <1>7, <1>8, <1>9, <1>10, <1>11, <1>12, <1>13
     DEF Next, CallingThread, ReadPayloads, ProcessPending

-----------------------------------------------------------------------------
(***************************************************************************)
(* What has been lowered, from step to step.                               *)
(***************************************************************************)

\* The address of a lowered function tells which one it is.
LEMMA AddressTells ==
  ASSUME NEW f \in Files, NEW validation, NEW funcs \in Nat, NEW c, NEW j \in Nat,
         HealthyCode(c, f, funcs, validation), c.addr = funcs + (j - 1)
  PROVE  Healthy(f, j, validation)
<1>1. PICK i \in DOMAIN Bodies(f) : Healthy(f, i, validation) /\ c.addr = funcs + (i - 1)
  BY DEF HealthyCode
<1>2. i \in Nat
  BY ItemsOfType, LenProperties DEF Bodies
<1>3. i = j
  BY <1>1, <1>2
<1> QED
  BY <1>1, <1>3

LEMMA FirstAddresses ==
  ASSUME NEW known, NEW r, NEW f, FirstCodes(known, r, f), NEW i \in DOMAIN known
  PROVE  known[i].addr = r.imported_func_count + (i - 1)
<1>1. known[i] = CodeAt(r, f, i)
  BY DEF FirstCodes
<1> QED
  BY ONLY <1>1 DEF CodeAt, FunctionCode, JobAt

\* What holds of two sequences, element by element, holds of both together.
LEMMA HealthyTogether ==
  ASSUME NEW f, NEW funcs, NEW validation, NEW u \in Seq(Codes), NEW v \in Seq(Codes),
         \A i \in DOMAIN u : HealthyCode(u[i], f, funcs, validation),
         \A i \in DOMAIN v : HealthyCode(v[i], f, funcs, validation)
  PROVE  \A i \in DOMAIN (u \o v) : HealthyCode((u \o v)[i], f, funcs, validation)
<1>1. /\ Len(u) \in Nat /\ Len(v) \in Nat /\ DOMAIN u = 1..Len(u) /\ DOMAIN v = 1..Len(v)
      /\ DOMAIN (u \o v) = 1..(Len(u) + Len(v))
      /\ \A i \in 1..(Len(u) + Len(v)) : (u \o v)[i] = IF i <= Len(u) THEN u[i] ELSE v[i - Len(u)]
  BY ConcatProperties, LenProperties
<1> SUFFICES ASSUME NEW i \in 1..(Len(u) + Len(v))
             PROVE  HealthyCode((u \o v)[i], f, funcs, validation)
  BY <1>1
<1>2. CASE i <= Len(u)
  <2>1. i \in DOMAIN u /\ (u \o v)[i] = u[i]
    BY <1>1, <1>2
  <2> QED
    BY <2>1
<1>3. CASE ~(i <= Len(u))
  <2>1. i - Len(u) \in DOMAIN v /\ (u \o v)[i] = v[i - Len(u)]
    BY <1>1, <1>3
  <2> QED
    BY <2>1
<1> QED
  BY <1>2, <1>3

\* Functions returned behind those the reader has: in the place they have in
\* the file.
LEMMA HealthyFront ==
  ASSUME NEW f \in Files, NEW validation, NEW r \in Readers, NEW u \in Seq(Codes),
         NEW v \in Seq(Codes), FirstCodes(u \o v, r, f),
         \A i \in DOMAIN u : Healthy(f, i, validation),
         \A i \in DOMAIN v : HealthyCode(v[i], f, r.imported_func_count, validation)
  PROVE  \A i \in DOMAIN (u \o v) : Healthy(f, i, validation)
<1>1. /\ Len(u) \in Nat /\ Len(v) \in Nat /\ DOMAIN u = 1..Len(u) /\ DOMAIN v = 1..Len(v)
      /\ DOMAIN (u \o v) = 1..(Len(u) + Len(v))
      /\ \A i \in 1..(Len(u) + Len(v)) : (u \o v)[i] = IF i <= Len(u) THEN u[i] ELSE v[i - Len(u)]
  BY ConcatProperties, LenProperties
<1> SUFFICES ASSUME NEW i \in 1..(Len(u) + Len(v)) PROVE Healthy(f, i, validation)
  BY <1>1
<1>2. CASE i <= Len(u)
  BY <1>1, <1>2
<1>3. CASE ~(i <= Len(u))
  <2>1. i - Len(u) \in DOMAIN v /\ (u \o v)[i] = v[i - Len(u)] /\ i \in DOMAIN (u \o v)
    BY <1>1, <1>3
  <2>2. (u \o v)[i].addr = r.imported_func_count + (i - 1)
    BY <2>1, FirstAddresses
  <2>3. HealthyCode((u \o v)[i], f, r.imported_func_count, validation)
    BY <2>1
  <2>4. r.imported_func_count \in Nat /\ i \in Nat
    BY <1>1 DEF Readers
  <2> QED
    BY <2>2, <2>3, <2>4, AddressTells
<1> QED
  BY <1>2, <1>3

\* Nothing is lowered.
LEMMA LoweringQuiet ==
  ASSUME Lowering, UNCHANGED <<file, options>>, reader'.code = reader.code,
         pc' # "done" => pc # "done", pc' \notin {"spawn", "join", "unwind"}
  PROVE  Lowering'
BY DEF Lowering

LEMMA CodeSectionEntryLowering ==
  ASSUME Types, Position, Reading, Pool, KnownFunctions, Lowering, CodeSectionEntry
  PROVE  Lowering'
<1> DEFINE b == Section.items[parser.body]
           n == Len(reader.code)
           c == FunctionCode(Job(reader, n, b), translation_metadata(reader),
                             reader.imported_func_count, reader.imported_memory_count)
<1>1. /\ pc = "parse" /\ InCode /\ ~AtEnd /\ ~Leftover /\ UNCHANGED <<file, options>>
      /\ pc' \in {"done", "parse", "pending"}
  BY EntryCases
<1>2. /\ IsReader(reader) /\ reader \in Readers /\ reader.err = NoError /\ file \in Files
      /\ reader.code \in Seq(Codes)
  BY <1>1 DEF Types, IsReader, Reading, Readers
<1>3. CASE Failed(reader')
  BY <1>1, <1>3, EntryCases DEF Lowering
<1>4. CASE ~Failed(reader') /\ reader.deferred
  <2>1. reader' = queue_function(reader, b)
    BY <1>4, EntryCases
  <2>2. reader'.code = reader.code
    <3> HIDE DEF b
    <3>1. SameButPending(reader', reader)
      BY <1>2, <1>4, <2>1, QueueAppends
    <3> QED
      BY <3>1 DEF SameButPending
  <2> QED
    BY <1>1, <2>2, LoweringQuiet
<1>5. CASE ~Failed(reader') /\ ~reader.deferred
  <2>1. reader' = process_inline_code_section_entry(reader, b, options)
    BY <1>5, EntryCases
  <2>2. reader'.code = Append(reader.code, c)
    BY <1>2, <1>5, <2>1, InlineAppends
  <2>3. ~Refused(b, options.validation)
    BY <1>2, <1>5, <2>1, InlineJudged
  <2>4. n \in Nat /\ n = Len(BodiesBefore(file, parser))
    <3>1. reader.pending = <<>>
      BY <1>5 DEF Reading, OneCodeSection
    <3>2. n \in Nat /\ n + Len(reader.pending) = Len(BodiesBefore(file, parser))
      BY <1>1, BodiesTaken
    <3>3. Len(reader.pending) = 0
      BY <3>1
    <3> HIDE DEF n
    <3> QED
      BY <3>2, <3>3
  <2>5. n + 1 <= Len(Bodies(file)) /\ b = Bodies(file)[n + 1]
    BY <1>1, <2>4, BodyRead
  <2>6. DOMAIN Bodies(file) = 1..Len(Bodies(file)) /\ Len(Bodies(file)) \in Nat
    BY <1>2, ItemsOfType, LenProperties DEF Bodies
  <2>7. Healthy(file, n + 1, options.validation)
    <3>1. n + 1 \in DOMAIN Bodies(file)
      <4> HIDE DEF n
      <4> QED
        BY <2>4, <2>5, <2>6
    <3> HIDE DEF n, b
    <3> QED
      BY <2>3, <2>5, <3>1 DEF Healthy
  <2>8. ASSUME NEW i \in DOMAIN reader'.code PROVE Healthy(file, i, options.validation)
    <3> HIDE DEF c
    <3>1. DOMAIN reader'.code = 1..(n + 1) /\ DOMAIN reader.code = 1..n
      BY <1>2, <2>2, AppendProperties, LenProperties
    <3>2. i \in 1..n \/ i = n + 1
      <4> HIDE DEF n
      <4> QED
        BY <2>4, <2>8, <3>1
    <3>3. i \in 1..n => Healthy(file, i, options.validation)
      BY <1>1, <3>1 DEF Lowering
    <3> QED
      BY <2>7, <3>2, <3>3
  <2> QED
    BY <1>1, <2>8 DEF Lowering
<1> QED
  BY <1>3, <1>4, <1>5

\* The jobs that threads are given are the bodies of the file.
LEMMA SplitPendingLowering ==
  ASSUME Types, Reading, Pool, KnownFunctions, Lowering, SplitPending
  PROVE  Lowering'
<1>1. /\ pc = "pending" /\ pc' = "spawn" /\ jobs' = reader.pending
      /\ UNCHANGED <<file, options, workers, codes>>
  BY DEF SplitPending, input
<1>2. reader'.code = reader.code
  BY SplitReader
<1>3. codes = <<>> /\ workers = <<>>
  BY <1>1 DEF Pool
<1>4. ASSUME NEW i \in DOMAIN reader.pending PROVE JobOf(reader.pending[i], file)
  <2> DEFINE n == Len(reader.code)
  <2>1. n + i <= Len(Bodies(file)) /\ reader.pending[i] = JobAt(file, n + i)
    BY <1>1 DEF KnownFunctions, FirstJobs
  <2>2. n \in Nat /\ i \in Nat \ {0} /\ DOMAIN Bodies(file) = 1..Len(Bodies(file))
        /\ Len(Bodies(file)) \in Nat
    BY <1>4, ItemsOfType, LenProperties DEF Types, Readers, Bodies
  <2> HIDE DEF n
  <2>3. n + i \in DOMAIN Bodies(file)
    BY <2>1, <2>2
  <2> QED
    BY <2>1, <2>3 DEF JobOf
<1>5. DOMAIN <<>> = {}
  OBVIOUS
<1>6. PoolJudged(codes', jobs', workers', file', reader'.imported_func_count, options'.validation)
  BY <1>1, <1>3, <1>4, <1>5 DEF PoolJudged
<1> QED
  BY <1>1, <1>2, <1>6 DEF Lowering

LEMMA SpawnWorkerLowering ==
  ASSUME Types, Pool, Lowering, SpawnWorker
  PROVE  Lowering'
<1> DEFINE funcs == reader.imported_func_count
           v == options.validation
<1>1. /\ pc = "spawn" /\ UNCHANGED <<file, options, reader, pc, codes>>
      /\ jobs \in Seq(Jobs)
  BY DEF SpawnWorker, input, Types
<1>2. PICK n \in 1..Len(jobs) :
           /\ n = ChunkLength(jobs) /\ Len(jobs) \in Nat
           /\ workers' = Append(workers, [jobs |-> SubSeq(jobs, 1, n), codes |-> <<>>,
                                          err |-> NoError])
           /\ jobs' = SubSeq(jobs, n + 1, Len(jobs))
           /\ Len(workers) \in Nat /\ workers' \in Seq(Workers)
           /\ Len(workers') = Len(workers) + 1
           /\ \A i \in 1..Len(workers) : workers'[i] = workers[i]
  BY SpawnWorkerFacts
<1> DEFINE front == SubSeq(jobs, 1, n)
           back == SubSeq(jobs, n + 1, Len(jobs))
           new == [jobs |-> front, codes |-> <<>>, err |-> NoError]
<1>3. /\ front \in Seq(Jobs) /\ Len(front) = n /\ back \in Seq(Jobs)
      /\ Len(back) = Len(jobs) - n
      /\ \A i \in 1..n : front[i] = jobs[i]
      /\ \A i \in 1..(Len(jobs) - n) : back[i] = jobs[n + i]
  <2>1. n \in 0..Len(jobs)
    BY <1>2
  <2> QED
    BY <1>1, <2>1, Parted
<1>4. PoolJudged(codes, jobs, workers, file, funcs, v)
  BY <1>1 DEF Lowering
<1>5. DOMAIN jobs = 1..Len(jobs) /\ DOMAIN workers = 1..Len(workers)
      /\ DOMAIN workers' = 1..(Len(workers) + 1)
  BY <1>1, <1>2, LenProperties DEF Types
<1>6. ASSUME NEW i \in DOMAIN front PROVE JobOf(front[i], file)
  <2>1. i \in 1..n /\ i \in DOMAIN jobs
    BY <1>2, <1>3, <1>5, LenProperties
  <2>2. front[i] = jobs[i]
    BY <1>3, <2>1
  <2> QED
    BY <1>4, <2>1, <2>2 DEF PoolJudged
<1>7. ASSUME NEW i \in DOMAIN back PROVE JobOf(back[i], file)
  <2>1. i \in 1..(Len(jobs) - n) /\ n + i \in DOMAIN jobs
    <3> HIDE DEF back
    <3>1. i \in 1..(Len(jobs) - n)
      <4>1. DOMAIN back = 1..Len(back)
        BY <1>3, LenProperties
      <4> QED
        BY <1>3, <1>7, <4>1
    <3>2. n + i \in 1..Len(jobs)
      BY <1>2, <3>1
    <3> QED
      BY <1>5, <3>1, <3>2
  <2>2. back[i] = jobs[n + i]
    BY <1>3, <2>1
  <2> QED
    BY <1>4, <2>1, <2>2 DEF PoolJudged
<1>8. Judged(new, file, funcs, v)
  <2>1. new.codes = <<>> /\ new.jobs = front /\ new.err = NoError /\ DOMAIN <<>> = {}
    OBVIOUS
  <2> HIDE DEF new, front
  <2> QED
    BY <1>6, <2>1 DEF Judged
<1>9. ASSUME NEW w \in DOMAIN workers' PROVE Judged(workers'[w], file, funcs, v)
  <2>1. w \in 1..Len(workers) \/ w = Len(workers) + 1
    BY <1>2, <1>5
  <2>2. workers'[Len(workers) + 1] = new
    <3> HIDE DEF new
    <3>1. workers' = Append(workers, new) /\ workers \in Seq(Workers)
      BY <1>2 DEF new, Types
    <3> QED
      BY ONLY <3>1
  <2>3. w \in 1..Len(workers) => Judged(workers'[w], file, funcs, v)
    BY <1>2, <1>4, <1>5 DEF PoolJudged
  <2> HIDE DEF new
  <2> QED
    BY <1>8, <2>1, <2>2, <2>3
<1>10. PoolJudged(codes', jobs', workers', file', reader'.imported_func_count, options'.validation)
  <2> HIDE DEF back
  <2>1. jobs' = back
    BY <1>2 DEF back
  <2> QED
    BY <1>1, <1>4, <1>7, <1>9, <2>1 DEF PoolJudged
<1> QED
  BY <1>1, <1>10 DEF Lowering

\* A thread lowers a body that has no fault, or stops at one that has.
LEMMA ProcessJobLowering ==
  ASSUME Types, Pool, Lowering, NEW w, ProcessJob(w), pc \in {"spawn", "join", "unwind"}
  PROVE  Lowering'
<1> DEFINE funcs == reader.imported_func_count
           v == options.validation
           queue == workers[w].jobs
           done == workers[w].codes
           job == Head(workers[w].jobs)
           code == FunctionCode(job, reader.metadata, funcs, reader.imported_memory_count)
<1>1. UNCHANGED <<file, options, reader, pc, jobs, codes>>
  BY DEF ProcessJob, input
<1>2. /\ w \in 1..Len(workers) /\ Len(workers) \in Nat /\ workers[w] \in Workers
      /\ queue # <<>> /\ queue \in Seq(Jobs) /\ job \in Jobs /\ Tail(queue) \in Seq(Jobs)
      /\ code \in Codes /\ workers[w].err = NoError
  <2>1. workers[w].err = NoError
    BY DEF ProcessJob, Running
  <2> QED
    BY <2>1, ProcessJobFacts
<1>3. PoolJudged(codes, jobs, workers, file, funcs, v)
  BY DEF Lowering
<1>4. DOMAIN workers = 1..Len(workers)
  BY LenProperties DEF Types
<1>5. Judged(workers[w], file, funcs, v)
  BY <1>2, <1>3, <1>4 DEF PoolJudged
<1>6. 1 \in DOMAIN queue /\ job = queue[1] /\ JobOf(job, file)
  <2>1. 1 \in DOMAIN queue /\ job = queue[1]
    BY <1>2
  <2> QED
    BY <1>5, <2>1 DEF Judged
<1>7. ASSUME NEW new, workers' = [workers EXCEPT ![w] = new], Judged(new, file, funcs, v)
      PROVE  Lowering'
  <2>1. DOMAIN workers' = DOMAIN workers
    BY <1>7
  <2>2. \A u \in DOMAIN workers : workers'[u] = IF u = w THEN new ELSE workers[u]
    BY <1>7
  <2>3. \A u \in DOMAIN workers' : Judged(workers'[u], file, funcs, v)
    BY <1>3, <1>7, <2>1, <2>2 DEF PoolJudged
  <2>4. PoolJudged(codes', jobs', workers', file', reader'.imported_func_count,
                   options'.validation)
    BY <1>1, <1>3, <2>3 DEF PoolJudged
  <2> QED
    BY <1>1, <2>4 DEF Lowering
<1>8. CASE Refused(job.body, v)
  <2> DEFINE err == <<"function", job.ordinal + 1>>
             new == [workers[w] EXCEPT !.err = err]
  <2>1. workers' = [workers EXCEPT ![w] = new]
    BY <1>8 DEF ProcessJob
  <2>2. new.err = err /\ new.jobs = queue /\ new.codes = done
    BY <1>2 DEF Workers
  <2> HIDE DEF new
  <2>3. Judged(new, file, funcs, v)
    BY <1>2, <1>5, <1>8, <2>2 DEF Judged
  <2> QED
    BY <1>7, <2>1, <2>3
<1>9. CASE ~Refused(job.body, v)
  <2> DEFINE rest == Tail(queue)
             more == Append(done, code)
             new == [workers[w] EXCEPT !.jobs = Tail(@), !.codes = Append(@, code)]
  <2>1. workers' = [workers EXCEPT ![w] = new]
    BY <1>9 DEF ProcessJob
  <2>2. new.err = NoError /\ new.jobs = rest /\ new.codes = more
    BY <1>2 DEF Workers
  <2>3. done \in Seq(Codes)
    BY <1>2 DEF Workers
  <2>4. HealthyCode(code, file, funcs, v)
    <3>1. PICK i \in DOMAIN Bodies(file) : job = JobAt(file, i)
      BY <1>6 DEF JobOf
    <3>2. job.ordinal = i - 1 /\ job.body = Bodies(file)[i]
      BY ONLY <3>1 DEF JobAt
    <3>3. code.addr = funcs + job.ordinal
      BY DEF FunctionCode
    <3>4. Healthy(file, i, v)
      BY <1>9, <3>2 DEF Healthy
    <3> HIDE DEF code
    <3> QED
      BY <3>2, <3>3, <3>4 DEF HealthyCode
  <2>5. ASSUME NEW i \in DOMAIN more PROVE HealthyCode(more[i], file, funcs, v)
    <3> HIDE DEF code, done
    <3>1. /\ DOMAIN more = 1..(Len(done) + 1) /\ Len(done) \in Nat /\ DOMAIN done = 1..Len(done)
          /\ more[Len(done) + 1] = code /\ \A k \in 1..Len(done) : more[k] = done[k]
      BY <1>2, <2>3, AppendProperties, LenProperties
    <3> HIDE DEF more
    <3>2. CASE i = Len(done) + 1
      BY <2>4, <3>1, <3>2
    <3>3. CASE i # Len(done) + 1
      <4>1. i \in DOMAIN done /\ more[i] = done[i]
        BY <2>5, <3>1, <3>3
      <4>2. HealthyCode(done[i], file, funcs, v)
        BY <1>5, <4>1 DEF Judged, done
      <4> QED
        BY <4>1, <4>2
    <3> QED
      BY <3>2, <3>3
  <2>6. ASSUME NEW i \in DOMAIN rest PROVE JobOf(rest[i], file)
    <3>1. i + 1 \in DOMAIN queue /\ rest[i] = queue[i + 1]
      <4> HIDE DEF queue
      <4>1. /\ Len(rest) = Len(queue) - 1 /\ \A k \in 1..Len(rest) : rest[k] = queue[k + 1]
            /\ Len(queue) \in Nat /\ DOMAIN queue = 1..Len(queue) /\ DOMAIN rest = 1..Len(rest)
        BY <1>2, HeadTailProperties, LenProperties
      <4> HIDE DEF rest
      <4> QED
        BY <2>6, <4>1
    <3> QED
      BY <1>5, <3>1 DEF Judged
  <2> HIDE DEF new, rest, more
  <2>7. Judged(new, file, funcs, v)
    BY <2>2, <2>5, <2>6 DEF Judged
  <2> QED
    BY <1>7, <2>1, <2>7
<1> QED
  BY <1>8, <1>9

\* The thread that is joined has put its functions behind those of the
\* threads in front of it; if it failed, its first job is the first body of
\* the file with a fault.
LEMMA JoinFront ==
  ASSUME Types, Pool, KnownFunctions, JoinWorker
  PROVE  LET w == workers[joined + 1]
             front == reader.code \o (codes \o w.codes)
         IN /\ front \in Seq(Codes) /\ codes \o w.codes \in Seq(Codes)
            /\ FirstCodes(front, reader, file)
            /\ w.jobs # <<>> =>
                 /\ Len(front) + 1 \in DOMAIN Known
                 /\ Known[Len(front) + 1].addr =
                      reader.imported_func_count + Head(w.jobs).ordinal
<1> DEFINE w == workers[joined + 1]
           r == reader
           a == reader.code
           c == w.codes
           cs == codes
           d == LoweredWith(reader, w.jobs)
           front == a \o (cs \o c)
           t == FlattenSeq(HeldFrom(reader, workers, joined + 1))
<1>1. pc = "join"
  BY DEF JoinWorker
<1>2. reader.pending = <<>> /\ jobs = <<>>
  BY <1>1 DEF Pool
<1>3. /\ joined + 1 \in 1..Len(workers) /\ Len(workers) \in Nat /\ joined \in Nat
      /\ workers \in Seq(Workers) /\ c \in Seq(Codes) /\ w.jobs \in Seq(Jobs)
      /\ cs \in Seq(Codes) /\ r \in Readers /\ a \in Seq(Codes)
  BY JoinFacts DEF Types, Readers
<1>4. Known = (a \o cs) \o FlattenSeq(HeldFrom(reader, workers, joined))
  <2>1. joined \in 0..Len(workers) /\ "join" \in {"join", "unwind"}
    BY <1>3
  <2>2. KnownIn("join", reader, <<>>, workers, joined, codes)
          = a \o codes \o FlattenSeq(HeldFrom(reader, workers, joined))
    BY <1>2, <1>3, <2>1, KnownJoining
  <2> QED
    BY <1>1, <1>2, <2>2, KnownIsIn
<1>5. /\ t \in Seq(Codes)
      /\ FlattenSeq(HeldFrom(reader, workers, joined)) = (c \o d) \o t
  BY <1>3, HeldNext DEF HeldWith
<1>6. d \in Seq(Codes) /\ Len(d) = Len(w.jobs)
      /\ \A i \in 1..Len(w.jobs) :
           d[i] = FunctionCode(w.jobs[i], translation_metadata(r), r.imported_func_count,
                               r.imported_memory_count)
  BY <1>3, LoweredType
<1>7. w.jobs # <<>> => /\ 1 \in 1..Len(d) /\ Len(d) \in Nat
                       /\ d[1].addr = r.imported_func_count + Head(w.jobs).ordinal
  <2> SUFFICES ASSUME w.jobs # <<>>
               PROVE  /\ 1 \in 1..Len(d) /\ Len(d) \in Nat
                      /\ d[1].addr = r.imported_func_count + Head(w.jobs).ordinal
    OBVIOUS
  <2>1. 1 \in 1..Len(w.jobs) /\ Head(w.jobs) = w.jobs[1]
    <3> DEFINE q == w.jobs
    <3>1. q \in Seq(Jobs) /\ q # <<>>
      BY <1>3
    <3> HIDE DEF q
    <3>2. 1 \in 1..Len(q) /\ Head(q) = q[1]
      BY <3>1
    <3> QED
      BY <3>2 DEF q
  <2>2. d[1] = FunctionCode(w.jobs[1], translation_metadata(r), r.imported_func_count,
                            r.imported_memory_count)
    BY <1>6, <2>1
  <2>3. d[1].addr = r.imported_func_count + w.jobs[1].ordinal
    BY ONLY <2>2 DEF FunctionCode
  <2> HIDE DEF d
  <2> QED
    BY <1>6, <2>1, <2>3, LenProperties
<1> HIDE DEF a, c, cs, d, t
<1>8. /\ cs \o c \in Seq(Codes) /\ front \in Seq(Codes)
      /\ Known = front \o (d \o t) /\ d \o t \in Seq(Codes)
  <2>0. a \in Seq(Codes) /\ cs \in Seq(Codes) /\ c \in Seq(Codes) /\ d \in Seq(Codes)
        /\ t \in Seq(Codes)
    BY <1>3, <1>5, <1>6
  <2>1. cs \o c \in Seq(Codes) /\ c \o d \in Seq(Codes) /\ d \o t \in Seq(Codes)
        /\ a \o cs \in Seq(Codes)
    BY ONLY <2>0, ConcatProperties
  <2>2. front \in Seq(Codes)
    <3> DEFINE u == cs \o c
    <3>1. u \in Seq(Codes)
      BY <2>1
    <3> HIDE DEF u
    <3>2. a \o u \in Seq(Codes)
      BY ONLY <2>0, <3>1, ConcatProperties
    <3> QED
      BY <3>2 DEF u
  <2>3. (c \o d) \o t = c \o (d \o t)
    <3>1. c \in Seq(Codes) /\ d \in Seq(Codes) /\ t \in Seq(Codes)
      BY <2>0
    <3> QED
      BY ONLY <3>1, Regrouped, Zenon
  <2>4. (a \o cs) \o (c \o (d \o t)) = ((a \o cs) \o c) \o (d \o t)
    <3> DEFINE u == a \o cs
               v == d \o t
    <3>1. u \in Seq(Codes) /\ c \in Seq(Codes) /\ v \in Seq(Codes)
      BY <2>0, <2>1
    <3> HIDE DEF u, v
    <3>2. (u \o c) \o v = u \o (c \o v)
      BY ONLY <3>1, Regrouped, Zenon
    <3> QED
      BY ONLY <3>2, Zenon DEF u, v
  <2>5. (a \o cs) \o c = a \o (cs \o c)
    <3>1. a \in Seq(Codes) /\ cs \in Seq(Codes) /\ c \in Seq(Codes)
      BY <2>0
    <3> QED
      BY ONLY <3>1, Regrouped, Zenon
  <2> QED
    BY <1>4, <1>5, <2>1, <2>2, <2>3, <2>4, <2>5, Zenon
<1> HIDE DEF front
<1> DEFINE e == d \o t
<1>9. Starts(front, Known)
  BY <1>8, StartsWith
<1>10. Known \in Seq(Codes)
  BY <1>8, ConcatProperties
<1>11. FirstCodes(front, reader, file)
  BY <1>8, <1>9, <1>10, FirstCodesLess DEF KnownFunctions
<1>12. ASSUME w.jobs # <<>>
       PROVE  /\ Len(front) + 1 \in DOMAIN Known
              /\ Known[Len(front) + 1].addr = r.imported_func_count + Head(w.jobs).ordinal
  <2>1. /\ Len(e) = Len(d) + Len(t) /\ Len(t) \in Nat /\ e \in Seq(Codes)
        /\ e[1] = d[1]
    <3>1. Len(d) \in Nat /\ 1 \in 1..Len(d) /\ Len(t) \in Nat
      BY <1>5, <1>7, <1>12, LenProperties
    <3>2. /\ Len(d \o t) = Len(d) + Len(t) /\ d \o t \in Seq(Codes)
          /\ \A i \in 1..(Len(d) + Len(t)) : (d \o t)[i] = IF i <= Len(d) THEN d[i] ELSE t[i - Len(d)]
      BY <1>5, <1>6, ConcatProperties
    <3>3. 1 \in 1..(Len(d) + Len(t)) /\ 1 <= Len(d)
      BY <3>1
    <3> QED
      BY <3>1, <3>2, <3>3
  <2> HIDE DEF e
  <2>2. /\ Len(front \o e) = Len(front) + Len(e) /\ Len(front) \in Nat /\ Len(e) \in Nat
        /\ \A i \in 1..(Len(front) + Len(e)) :
             (front \o e)[i] = IF i <= Len(front) THEN front[i] ELSE e[i - Len(front)]
    <3>1. Len(front) \in Nat /\ Len(e) \in Nat
      BY <1>8, <2>1, LenProperties
    <3>2. front \in Seq(Codes) /\ e \in Seq(Codes)
      BY <1>8, <2>1
    <3>3. /\ Len(front \o e) = Len(front) + Len(e)
          /\ \A i \in 1..(Len(front) + Len(e)) :
               (front \o e)[i] = IF i <= Len(front) THEN front[i] ELSE e[i - Len(front)]
      BY ONLY <3>2, ConcatProperties
    <3> QED
      BY ONLY <3>1, <3>3
  <2>3. Len(front) + 1 \in 1..(Len(front) + Len(e)) /\ ~(Len(front) + 1 <= Len(front))
        /\ (Len(front) + 1) - Len(front) = 1
    BY <1>7, <1>12, <2>1, <2>2
  <2>4. (front \o e)[Len(front) + 1] = d[1]
    BY <2>1, <2>2, <2>3
  <2>5. Known = front \o e
    BY <1>8 DEF e
  <2>6. DOMAIN Known = 1..Len(Known)
    BY <1>10, LenProperties
  <2>7. Len(front) + 1 \in DOMAIN Known /\ Known[Len(front) + 1] = d[1]
    BY <2>2, <2>3, <2>4, <2>5, <2>6
  <2> QED
    BY <1>7, <1>12, <2>7
<1> QED
  BY <1>8, <1>11, <1>12 DEF front, cs, c, a

\* The first body with a fault: none in front of it has one.
LEMMA FirstFaultIs ==
  ASSUME NEW f \in Files, NEW validation, NEW i \in DOMAIN Bodies(f),
         Refused(Bodies(f)[i], validation), \A j \in 1 .. i - 1 : Healthy(f, j, validation)
  PROVE  FaultyBodies(f, validation) # {} /\ FirstFault(f, validation) = <<"function", i>>
<1> DEFINE bodies == Bodies(f)
           faulty == FaultyBodies(f, validation)
<1>1. DOMAIN bodies = 1..Len(bodies) /\ Len(bodies) \in Nat /\ i \in Nat
  BY ItemsOfType, LenProperties DEF Bodies
<1>2. i \in faulty
  BY DEF FaultyBodies
<1>3. ASSUME NEW j \in faulty, ~(i <= j) PROVE FALSE
  <2>1. j \in 1..Len(bodies) /\ Refused(bodies[j], validation)
    BY <1>1 DEF FaultyBodies
  <2>2. j \in 1 .. i - 1
    BY <1>1, <1>3, <2>1
  <2>3. ~Refused(bodies[j], validation)
    BY <2>2 DEF Healthy
  <2> QED
    BY <2>1, <2>3
<1>4. \A k \in faulty : k \in Nat
  BY <1>1 DEF FaultyBodies
<1>5. FirstOf(faulty) = i
  <2> HIDE DEF faulty
  <2>1. \E k \in faulty : \A j \in faulty : k <= j
    BY <1>2, <1>3
  <2>2. FirstOf(faulty) \in faulty /\ \A j \in faulty : FirstOf(faulty) <= j
    BY <2>1 DEF FirstOf
  <2> DEFINE k == FirstOf(faulty)
  <2>3. k \in Nat /\ k <= i /\ i <= k
    BY <1>2, <1>3, <1>4, <2>2
  <2> HIDE DEF k
  <2>4. k = i
    BY <1>1, <2>3
  <2> QED
    BY <2>4 DEF k
<1> QED
  BY <1>2, <1>5 DEF FirstFault

LEMMA JoinWorkerLowering ==
  ASSUME Types, Pool, KnownFunctions, Lowering, JoinWorker
  PROVE  Lowering'
<1> DEFINE w == workers[joined + 1]
           funcs == reader.imported_func_count
           v == options.validation
           behind == codes \o w.codes
           front == reader.code \o behind
<1>1. /\ pc = "join" /\ Joinable
      /\ UNCHANGED <<file, options, jobs, workers>>
      /\ \/ /\ w.err # NoError /\ reader' = Fail(reader, w.err) /\ pc' = "unwind"
            /\ UNCHANGED <<joined, codes>>
         \/ /\ w.err = NoError /\ joined' = joined + 1 /\ codes' = behind
            /\ UNCHANGED <<reader, pc>>
  BY DEF JoinWorker, input, stream
<1>2. /\ joined + 1 \in 1..Len(workers) /\ DOMAIN workers = 1..Len(workers)
      /\ w.codes \in Seq(Codes) /\ w.jobs \in Seq(Jobs) /\ codes \in Seq(Codes)
      /\ reader \in Readers /\ reader.code \in Seq(Codes) /\ file \in Files /\ funcs \in Nat
  BY JoinFacts, LenProperties DEF Types, Readers
<1>3. PoolJudged(codes, jobs, workers, file, funcs, v)
  BY <1>1 DEF Lowering
<1>4. Judged(w, file, funcs, v)
  BY <1>2, <1>3 DEF PoolJudged
<1>5. \A i \in DOMAIN behind : HealthyCode(behind[i], file, funcs, v)
  <2>1. \A i \in DOMAIN codes : HealthyCode(codes[i], file, funcs, v)
    BY <1>3 DEF PoolJudged
  <2>2. \A i \in DOMAIN w.codes : HealthyCode(w.codes[i], file, funcs, v)
    BY <1>4 DEF Judged
  <2> DEFINE c == w.codes
  <2>3. c \in Seq(Codes) /\ \A i \in DOMAIN c : HealthyCode(c[i], file, funcs, v)
    BY <1>2, <2>2
  <2> HIDE DEF c, funcs, v
  <2>4. \A i \in DOMAIN (codes \o c) : HealthyCode((codes \o c)[i], file, funcs, v)
    BY <1>2, <2>1, <2>3, HealthyTogether
  <2> QED
    BY <2>4 DEF c
<1>6. CASE w.err = NoError
  <2>1. codes' = behind /\ UNCHANGED <<reader, pc>>
    BY <1>1, <1>6
  <2> HIDE DEF behind, w
  <2>2. PoolJudged(codes', jobs', workers', file', reader'.imported_func_count,
                   options'.validation)
    BY <1>1, <1>3, <1>5, <2>1 DEF PoolJudged
  <2> QED
    BY <1>1, <2>1, <2>2 DEF Lowering
<1>7. CASE w.err # NoError
  <2> DEFINE job == Head(w.jobs)
             bodies == Bodies(file)
             faulty == FaultyBodies(file, v)
             n == Len(front)
  <2>1. reader' = Fail(reader, w.err) /\ pc' = "unwind" /\ UNCHANGED codes
    BY <1>1, <1>7
  <2>2. /\ w.jobs # <<>> /\ Refused(job.body, v) /\ w.err = <<"function", job.ordinal + 1>>
        /\ JobOf(job, file)
    <3>1. w.jobs # <<>> /\ Refused(job.body, v) /\ w.err = <<"function", job.ordinal + 1>>
      BY <1>4, <1>7 DEF Judged
    <3>2. 1 \in DOMAIN w.jobs /\ job = w.jobs[1]
      <4> DEFINE q == w.jobs
      <4>1. q \in Seq(Jobs) /\ q # <<>>
        BY <1>2, <3>1
      <4> HIDE DEF q
      <4>2. 1 \in DOMAIN q /\ Head(q) = q[1]
        BY <4>1
      <4> QED
        BY <4>2 DEF q
    <3>3. JobOf(w.jobs[1], file)
      BY <1>4, <3>2 DEF Judged
    <3> QED
      BY <3>1, <3>2, <3>3
  <2>3. PICK i \in DOMAIN bodies : job = JobAt(file, i)
    BY <2>2 DEF JobOf
  <2>4. job.ordinal = i - 1 /\ job.body = bodies[i]
    BY ONLY <2>3 DEF JobAt
  <2>5. DOMAIN bodies = 1..Len(bodies) /\ Len(bodies) \in Nat /\ i \in Nat
    BY <1>2, ItemsOfType, LenProperties DEF Bodies
  <2>7. /\ front \in Seq(Codes) /\ behind \in Seq(Codes)
        /\ FirstCodes(front, reader, file)
        /\ n + 1 \in DOMAIN Known /\ Known[n + 1].addr = funcs + job.ordinal
    BY <2>2, JoinFront
  <2>8. n \in Nat /\ DOMAIN front = 1..n
    BY <2>7, LenProperties
  <2>9. i = n + 1
    <3>1. Known[n + 1].addr = funcs + ((n + 1) - 1)
      BY <2>7, FirstAddresses DEF KnownFunctions
    <3> HIDE DEF n, funcs, job
    <3>2. funcs \in Nat
      BY <1>2
    <3> QED
      BY <2>4, <2>5, <2>7, <2>8, <3>1, <3>2
  <2>10. \A j \in 1..n : Healthy(file, j, v)
    <3>1. \A j \in DOMAIN reader.code : Healthy(file, j, v)
      BY <1>1 DEF Lowering
    <3> HIDE DEF behind, v, n
    <3>2. \A j \in DOMAIN (reader.code \o behind) : Healthy(file, j, v)
      BY <1>2, <1>5, <2>7, <3>1, HealthyFront
    <3> QED
      BY <2>8, <3>2
  <2>11. faulty # {} /\ FirstFault(file, v) = <<"function", i>>
    <3>1. Refused(bodies[i], v) /\ \A j \in 1 .. i - 1 : Healthy(file, j, v)
      <4> HIDE DEF n
      <4>1. i - 1 = n
        BY <2>5, <2>8, <2>9
      <4> QED
        BY <2>2, <2>4, <2>10, <4>1
    <3> QED
      BY <1>2, <2>3, <3>1, FirstFaultIs
  <2>13. w.err = <<"function", i>>
    <3>1. job.ordinal + 1 = i
      <4> HIDE DEF job
      <4> QED
        BY <2>4, <2>5
    <3> QED
      BY <2>2, <3>1
  <2>14. reader'.err = FirstFault(file, v)
    <3>1. reader'.err = w.err
      BY <1>2, <2>1, FailKeeps
    <3> QED
      BY <2>11, <2>13, <3>1
  <2>15. reader'.code = reader.code /\ reader'.imported_func_count = funcs
    BY <1>2, <2>1, FailKeeps DEF SameCode, SameLists
  <2> HIDE DEF w, funcs, v, faulty
  <2>16. faulty # {}
    BY <2>11
  <2>17. options'.validation = v /\ file' = file
    BY <1>1 DEF v
  <2>18. \A j \in DOMAIN reader'.code : Healthy(file, j, v)
    BY <1>1, <2>15 DEF Lowering, v
  <2>19. PoolJudged(codes', jobs', workers', file', reader'.imported_func_count,
                    options'.validation)
    BY <1>1, <1>3, <2>1, <2>15, <2>17
  <2> QED
    BY <2>1, <2>14, <2>16, <2>17, <2>18, <2>19 DEF Lowering, faulty
<1> QED
  BY <1>6, <1>7

LEMMA AllJoinedLowering ==
  ASSUME Types, Pool, KnownFunctions, Lowering, AllJoined
  PROVE  Lowering'
<1> DEFINE v == options.validation
<1>1. /\ pc = "join" /\ pc' = "finish" /\ joined = Len(workers)
      /\ reader' = [reader EXCEPT !.code = @ \o codes] /\ UNCHANGED <<file, options>>
  BY DEF AllJoined, input
<1>2. /\ reader \in Readers /\ reader.code \in Seq(Codes) /\ codes \in Seq(Codes)
      /\ workers \in Seq(Workers) /\ file \in Files
  BY DEF Types, Readers
<1>3. reader.pending = <<>> /\ jobs = <<>>
  BY <1>1 DEF Pool
<1>4. Known = reader.code \o codes
  <2>1. KnownIn("join", reader, <<>>, workers, Len(workers), codes) = reader.code \o codes
    BY <1>2, <1>3, KnownAllJoined
  <2> QED
    BY <1>1, <1>3, <2>1, KnownIsIn
<1>5. FirstCodes(reader.code \o codes, reader, file)
  BY <1>4 DEF KnownFunctions
<1>6. /\ \A i \in DOMAIN reader.code : Healthy(file, i, v)
      /\ \A i \in DOMAIN codes : HealthyCode(codes[i], file, reader.imported_func_count, v)
  BY <1>1 DEF Lowering, PoolJudged
<1>7. \A i \in DOMAIN (reader.code \o codes) : Healthy(file, i, v)
  BY <1>2, <1>5, <1>6, HealthyFront
<1>8. reader'.code = reader.code \o codes
  BY ONLY <1>1, <1>2 DEF Readers
<1> QED
  BY <1>1, <1>7, <1>8 DEF Lowering

LEMMA LoweringStep ==
  ASSUME Types, Position, pc # "done" => Reading, Pool, KnownFunctions, Lowering, [Next]_vars
  PROVE  Lowering'
<1>1. CASE pc' = "done"
  BY <1>1 DEF Lowering
<1>2. CASE UNCHANGED vars
  BY <1>2 DEF Lowering, vars, input, stream, pool
<1> SUFFICES ASSUME pc' # "done", Next PROVE Lowering'
  BY <1>1, <1>2
<1>3. pc # "done" /\ reader \in Readers
  <2>1. pc # "done"
    BY DEF Next, CallingThread, ReadPayloads, ProcessPending, Fill, ParserFails, ProcessSection,
           BeginCodeSection, CodeSectionEntry, ProcessEnd, FillSection, QueueSection,
           NothingPending, SplitPending, SpawnWorker, AllSpawned, JoinWorker, AllJoined,
           LeaveScope, Finish, ReadFails, ProcessJob, Returned, vars
  <2> QED
    BY <2>1 DEF Types
<1>4. CASE Fill \/ FillSection \/ NothingPending
  <2>1. UNCHANGED <<file, options, reader>> /\ pc' \notin {"spawn", "join", "unwind"}
    BY <1>4 DEF Fill, FillSection, NothingPending, Return, input, stream
  <2> QED
    BY <1>3, <2>1, LoweringQuiet
<1>5. CASE ProcessSection
  <2>1. /\ pc' \in {"parse", "section", "pending", "done"} /\ UNCHANGED <<file, options>>
    BY <1>5, ReadPayloadsNext DEF ReadPayloads, ProcessSection, Consume, input
  <2>2. /\ ~AtEnd /\ Section.kind # "code"
        /\ reader' = process_payload(reader, Section, options.validation) /\ ~Failed(reader')
    BY <1>5, Proceeds DEF ProcessSection
  <2>3. IsReader(reader) /\ IsSection(Section) /\ Section.items \in Seq(AllItems)
    BY <1>3, <2>2, AtSection DEF Types, IsReader
  <2>4. reader'.code = reader.code
    BY <2>2, <2>3, PayloadStores DEF Stored, SameCode
  <2> QED
    BY <1>3, <2>1, <2>4, LoweringQuiet
<1>6. CASE BeginCodeSection
  <2>1. /\ pc' \in {"parse", "section", "pending", "done"} /\ UNCHANGED <<file, options>>
    BY <1>6, ReadPayloadsNext DEF ReadPayloads, BeginCodeSection, Consume, input
  <2>2. \E cpus : /\ reader' = begin_code_section(reader, Section, options, cpus)
                  /\ ~Failed(reader')
    BY <1>6, Proceeds DEF BeginCodeSection
  <2>3. reader'.code = reader.code
    BY <1>3, <2>2, BeginCode DEF Types, IsReader
  <2> QED
    BY <1>3, <2>1, <2>3, LoweringQuiet
<1>7. CASE CodeSectionEntry
  BY <1>3, <1>7, CodeSectionEntryLowering
<1>8. CASE ProcessEnd
  <2>1. /\ pc' \in {"pending", "done"} /\ reader'.code = reader.code
        /\ UNCHANGED <<file, options>>
    BY <1>8, ProcessEndFacts
  <2> QED
    BY <1>3, <2>1, LoweringQuiet
<1>9. CASE QueueSection
  <2>1. UNCHANGED <<file, options>> /\ pc' \in {"parse", "done"}
        /\ \E m : QueuedUpTo(reader', reader, Section.items, m)
    BY <1>3, <1>9, QueueSectionFacts
  <2>2. reader'.code = reader.code
    BY <2>1 DEF QueuedUpTo, SameButPending
  <2> QED
    BY <1>3, <2>1, <2>2, LoweringQuiet
<1>10. CASE SplitPending
  BY <1>3, <1>10, SplitPendingLowering
<1>11. CASE SpawnWorker
  BY <1>11, SpawnWorkerLowering
<1>12. CASE AllSpawned
  <2>1. /\ pc = "spawn" /\ pc' = "join"
        /\ UNCHANGED <<file, options, reader, codes, jobs, workers>>
    BY <1>12 DEF AllSpawned, input, pool
  <2> QED
    BY <2>1 DEF Lowering
<1>13. ASSUME NEW w \in Threads, ProcessJob(w) PROVE Lowering'
  <2>1. CASE pc \in {"spawn", "join", "unwind"}
    BY <1>13, <2>1, ProcessJobLowering
  <2>2. CASE pc \notin {"spawn", "join", "unwind"}
    <3>1. UNCHANGED <<file, options, reader, pc>>
      BY <1>13 DEF ProcessJob, input
    <3> QED
      BY <1>3, <2>2, <3>1, LoweringQuiet
  <2> QED
    BY <2>1, <2>2
<1>14. CASE JoinWorker
  BY <1>14, JoinWorkerLowering
<1>15. CASE AllJoined
  BY <1>15, AllJoinedLowering
<1>16. CASE ParserFails \/ ReadFails \/ LeaveScope \/ Finish \/ Returned
  BY <1>16, <1>3 DEF ParserFails, ReadFails, LeaveScope, Finish, Returned, Return
<1> QED
  BY <1>4, <1>5, <1>6, <1>7, <1>8, <1>9, <1>10, <1>11, <1>12, <1>13, <1>14, <1>15, <1>16
     DEF Next, CallingThread, ReadPayloads, ProcessPending

LEMMA JudgingStep == Judging /\ [Next]_vars => Judging'
<1> SUFFICES ASSUME Judging, [Next]_vars PROVE Judging'
  OBVIOUS
<1>1. /\ Holding /\ Types /\ Position /\ (pc # "done" => Reading) /\ Pool /\ KnownFunctions
      /\ Passed /\ Lowering
  BY DEF Judging, Holding, Placing
<1>2. Holding'
  BY <1>1, HoldingStep
<1>3. Passed'
  BY <1>1, PassedStep
<1>4. Lowering'
  BY <1>1, LoweringStep
<1> QED
  BY <1>2, <1>3, <1>4 DEF Judging

LEMMA InitJudging == Init => Passed /\ Lowering
<1> SUFFICES ASSUME Init PROVE Passed /\ Lowering
  OBVIOUS
<1>1. reader.code = <<>> /\ pc = "parse" /\ parser.section = 1 /\ parser.body = 0
  BY DEF Init, NewReader
<1>2. ~InCodeAt(file, parser) /\ 1 .. parser.section - 1 = {} /\ DOMAIN reader.code = {}
  BY <1>1 DEF InCodeAt
<1> QED
  BY <1>1, <1>2 DEF Passed, PassedAt, Lowering, Parsed

-----------------------------------------------------------------------------
(***************************************************************************)
(* What the call returns.                                                  *)
(***************************************************************************)

\* An error that a file, or the stream it is read from, gives reason for; and
\* a step that returns no other.
Deserved(f, o, e) ==
  e # NoError /\ (e \in Faults(f, o.validation) \/ (o.stream /\ e = Error("read")))
Answers == UNCHANGED outcome \/ \E e : Deserved(file, options, e) /\ outcome' = [error |-> e]

LEMMA FaultDeserved ==
  ASSUME NEW class \in Classes \ {"none"}, Error(class) \in Faults(file, options.validation)
  PROVE  Deserved(file, options, Error(class))
<1>1. Error(class) # NoError
  BY ErrorFacts
<1> QED
  BY <1>1 DEF Deserved

LEMMA FirstDeserved ==
  ASSUME file \in Files, FaultyBodies(file, options.validation) # {}
  PROVE  Deserved(file, options, FirstFault(file, options.validation))
<1> DEFINE fault == FirstFault(file, options.validation)
<1>1. fault # NoError
  BY DEF FirstFault, NoError, Error
<1>2. fault \in Faults(file, options.validation)
  BY FaultsOf
<1> QED
  BY <1>1, <1>2 DEF Deserved

LEMMA ProceedAnswers ==
  ASSUME NEW r, NEW next, Proceed(r, next), Failed(r) => Deserved(file, options, r.err)
  PROVE  Answers
BY DEF Proceed, Return, Answers

LEMMA ReadFailsAnswers ==
  ASSUME ReadFails
  PROVE  Answers
<1>1. options.stream /\ outcome' = [error |-> Error("read")]
  BY DEF ReadFails, Return
<1>2. Error("read") # NoError
  BY ErrorFacts DEF Classes
<1> QED
  BY <1>1, <1>2 DEF Answers, Deserved

LEMMA ParserFailsAnswers ==
  ASSUME Types, Position, ParserFails
  PROVE  Answers
<1> DEFINE v == options.validation
           n == parser.section
<1>1. /\ pc = "parse" /\ ~HasPayload /\ ~NeedMoreData
      /\ outcome' = [error |-> Error(IF Leftover THEN "junk" ELSE IF OutOfOrder THEN "order"
                                     ELSE "truncated")]
  BY DEF ParserFails, Return
<1>2. ASSUME NEW class \in Classes \ {"none"}, Error(class) \in Faults(file, v),
             outcome' = [error |-> Error(class)]
      PROVE  Answers
  BY <1>2, FaultDeserved DEF Answers
<1>3. {"junk", "order", "truncated"} \subseteq Classes \ {"none"}
  BY DEF Classes
<1>4. ASSUME ~AtEnd PROVE n \in DOMAIN file.sections /\ Section = file.sections[n]
  <2>1. file \in Files /\ n \in 1..Len(file.sections)
    BY <1>4, AtSection DEF Types
  <2> QED
    BY <2>1, FileFacts DEF Section
<1>5. CASE Leftover
  <2>1. ~AtEnd /\ parser.body > 0 /\ parser.body > Len(Section.items)
    BY <1>5 DEF Leftover, InCode
  <2>2. Section.junk > 0
    BY <2>1 DEF Position, WellPlaced, Section
  <2>3. Error("junk") \in Faults(file, v)
    BY <1>4, <2>1, <2>2, FaultsOf
  <2> QED
    BY <1>1, <1>2, <1>3, <1>5, <2>3
<1>6. CASE ~Leftover /\ OutOfOrder
  <2>1. ~AtEnd /\ ~Placed(file, n)
    BY <1>6 DEF OutOfOrder
  <2>2. Error("order") \in Faults(file, v)
    BY <1>4, <2>1, FaultsOf
  <2> QED
    BY <1>1, <1>2, <1>3, <1>6, <2>2
<1>7. CASE ~Leftover /\ ~OutOfOrder
  <2>1. eof
    BY <1>1, <1>7 DEF NeedMoreData, Bad
  <2>2. ~AtEnd
    BY <1>1, <1>7, <2>1, WholeAtEnd DEF HasPayload, Bad
  <2>3. ~(read - offset >= Needed)
    BY <1>1, <1>7, <2>2 DEF HasPayload, Bad, Buffered
  <2>4. read = FileBytes(file)
    BY <2>1 DEF Position
  <2> DEFINE need == Needed
             here == BytesUpTo(file, n)
  <2>5. need \in Nat /\ offset \in Nat /\ here \in Nat /\ offset + need <= here /\ read \in Nat
    BY <1>1, <1>7, <2>2, NeededInSection DEF Types
  <2>6. read < here
    <3>1. ~(read - offset >= need)
      BY <2>3
    <3> HIDE DEF need, here
    <3> QED
      BY <2>5, <3>1
  <2>7. file.cut > 0
    BY <2>2, <2>4, <2>6, CutShort
  <2>8. Error("truncated") \in Faults(file, v)
    BY <2>7, FaultsOf
  <2> QED
    BY <1>1, <1>2, <1>3, <1>7, <2>8
<1> QED
  BY <1>5, <1>6, <1>7

LEMMA ProcessSectionAnswers ==
  ASSUME Types, Position, Reading, ProcessSection
  PROVE  Answers
<1> DEFINE v == options.validation
           n == parser.section
           s == Section
           r == process_payload(reader, Section, v)
<1>1. /\ pc = "parse" /\ HasPayload /\ ~AtEnd /\ ~InCode /\ Proceed(r, NextPayload(r))
  BY DEF ProcessSection
<1>2. /\ file \in Files /\ reader \in Readers /\ reader.err = NoError
      /\ n \in 1..Len(file.sections) /\ Len(file.sections) \in Nat
      /\ n \in DOMAIN file.sections /\ n - 1 \in 0..Len(file.sections)
      /\ s = file.sections[n]
  BY <1>1, AtSection, FileFacts DEF Types, Section, Reading
<1>3. \A k \in StoredKinds : reader.lists[k] = ItemsUpTo(file, k, n - 1)
  BY DEF Reading, Lists
<1>4. {"unsupported", "duplicate", "section", "type"} \subseteq Classes \ {"none"}
  BY DEF Classes
<1>5. ASSUME Failed(r) PROVE Deserved(file, options, r.err)
  <2>1. \/ s.kind = "unknown" /\ r.err = Error("unsupported")
        \/ s.kind \in CheckedKinds /\ reader.lists[s.kind] # <<>> /\ r.err = Error("duplicate")
        \/ s.kind = "datacount" /\ reader.lists["data"] # <<>>
        \/ Refused(s, v) /\ r.err = Error("section")
        \/ /\ s.kind = "function" /\ r.err = Error("type")
           /\ \E ty \in Range(s.items) : ty >= Len(reader.lists["type"])
    BY <1>2, <1>5, PayloadJudged
  <2>2. CASE s.kind = "unknown" /\ r.err = Error("unsupported")
    <3>1. Error("unsupported") \in Faults(file, v)
      BY <1>2, <2>2, FaultsOf
    <3> QED
      BY <1>4, <2>2, <3>1, FaultDeserved
  <2>3. CASE s.kind \in CheckedKinds /\ reader.lists[s.kind] # <<>> /\ r.err = Error("duplicate")
    <3>1. ItemsUpTo(file, s.kind, n - 1) # <<>>
      BY <1>3, <2>3 DEF StoredKinds
    <3>2. PICK j \in 1..(n - 1) : file.sections[j].kind = s.kind /\ file.sections[j].items # <<>>
      BY <1>2, <3>1, NoItemsBefore
    <3>3. j \in DOMAIN file.sections /\ j < n
      BY <1>2, <3>2, FileFacts
    <3>4. Error("duplicate") \in Faults(file, v)
      BY <1>2, <2>3, <3>2, <3>3, FaultsOf
    <3> QED
      BY <1>4, <2>3, <3>4, FaultDeserved
  <2>4. CASE s.kind = "datacount" /\ reader.lists["data"] # <<>>
    <3>1. ItemsUpTo(file, "data", n - 1) # <<>>
      BY <1>3, <2>4 DEF StoredKinds, CheckedKinds
    <3>2. PICK j \in 1..(n - 1) : file.sections[j].kind = "data"
      BY <1>2, <3>1, NoItemsBefore
    <3>3. Placed(file, n)
      BY <1>1, InPlace
    <3> QED
      BY <1>2, <2>4, <3>2, <3>3, CountBeforeData
  <2>5. CASE Refused(s, v) /\ r.err = Error("section")
    <3>1. Error("section") \in Faults(file, v)
      BY <1>2, <2>5, FaultsOf
    <3> QED
      BY <1>4, <2>5, <3>1, FaultDeserved
  <2>6. CASE /\ s.kind = "function" /\ r.err = Error("type")
             /\ \E ty \in Range(s.items) : ty >= Len(reader.lists["type"])
    <3>1. reader.lists["type"] = ItemsUpTo(file, "type", n - 1)
      BY <1>3 DEF StoredKinds, CheckedKinds
    <3>2. Error("type") \in Faults(file, v)
      BY <1>2, <2>6, <3>1, FaultsOf
    <3> QED
      BY <1>4, <2>6, <3>2, FaultDeserved
  <2> QED
    BY <2>1, <2>2, <2>3, <2>4, <2>5, <2>6
<1> QED
  BY <1>1, <1>5, ProceedAnswers

LEMMA BeginCodeSectionAnswers ==
  ASSUME Types, Position, Reading, BeginCodeSection
  PROVE  Answers
<1> DEFINE v == options.validation
           n == parser.section
<1>1. pc = "parse" /\ ~AtEnd /\ ~InCode /\ Section.kind = "code"
  BY DEF BeginCodeSection
<1>2. PICK cpus \in Available :
        LET r == begin_code_section(reader, Section, options, cpus) IN
        Proceed(r, IF r.deferred /\ options.stream THEN "section" ELSE NextPayload(r))
  BY DEF BeginCodeSection
<1> DEFINE r == begin_code_section(reader, Section, options, cpus)
<1>3. /\ file \in Files /\ reader \in Readers /\ reader.err = NoError
      /\ n \in 1..Len(file.sections) /\ Len(file.sections) \in Nat
      /\ n \in DOMAIN file.sections /\ Section = file.sections[n]
  BY <1>1, AtSection, FileFacts DEF Types, Section, Reading
<1>4. "duplicate" \in Classes \ {"none"} /\ "section" \in Classes \ {"none"}
  BY DEF Classes
<1>5. ASSUME Failed(r) PROVE Deserved(file, options, r.err)
  <2>1. \/ reader.has_code_section /\ r.err = Error("duplicate")
        \/ Refused(Section, v) /\ r.err = Error("section")
    BY <1>3, <1>5, BeginJudged
  <2>2. CASE reader.has_code_section /\ r.err = Error("duplicate")
    <3>1. ~InCodeAt(file, parser)
      BY <1>1 DEF InCodeAt, InCode, AtEnd
    <3>2. CodeBefore(file, parser)
      BY <2>2, <3>1 DEF Reading, OneCodeSection
    <3>3. PICK j \in 1..(n - 1) : file.sections[j].kind = "code"
      BY <3>2 DEF CodeBefore
    <3>4. j \in DOMAIN file.sections /\ j < n
      BY <1>3, <3>3, FileFacts
    <3>5. Error("duplicate") \in Faults(file, v)
      BY <1>1, <1>3, <3>3, <3>4, FaultsOf
    <3> QED
      BY <1>4, <2>2, <3>5, FaultDeserved
  <2>3. CASE Refused(Section, v) /\ r.err = Error("section")
    <3>1. Error("section") \in Faults(file, v)
      BY <1>3, <2>3, FaultsOf
    <3> QED
      BY <1>4, <2>3, <3>1, FaultDeserved
  <2> QED
    BY <2>1, <2>2, <2>3
<1> QED
  BY <1>2, <1>5, ProceedAnswers

LEMMA CodeSectionEntryAnswers ==
  ASSUME Types, Position, Reading, Pool, KnownFunctions, Lowering, CodeSectionEntry
  PROVE  Answers
<1> DEFINE v == options.validation
           n == parser.section
           b == Section.items[parser.body]
           inline == process_inline_code_section_entry(reader, b, options)
           queue == queue_function(reader, b)
           r == IF options.stream THEN inline
                ELSE process_borrowed_code_section_entry(reader, b, options)
           taken == Len(reader.code)
           queued == Len(reader.pending)
           given == Len(Section.items)
           declared == Len(reader.lists["function"])
<1>1. pc = "parse" /\ InCode /\ Proceed(r, NextPayload(r))
  BY DEF CodeSectionEntry
<1>2. ~AtEnd /\ ~Leftover
  BY EntryCases
<1>3. (r = inline /\ ~reader.deferred) \/ r = queue
  <2>1. options.stream => ~reader.deferred
    BY <1>1 DEF Reading
  <2> QED
    BY <2>1 DEF process_borrowed_code_section_entry
<1> HIDE DEF r
<1>4. /\ file \in Files /\ reader \in Readers /\ reader.err = NoError
      /\ Len(reader.code_results) = declared
      /\ n \in 1..Len(file.sections) /\ n \in DOMAIN file.sections
      /\ Section = file.sections[n] /\ Section.kind = "code"
      /\ parser.body \in 1..given /\ given \in Nat
  BY <1>1, <1>2, AtSection, AtBody, FileFacts DEF Types, Section, Reading
<1>5. /\ taken \in Nat /\ queued \in Nat /\ taken + queued = parser.body - 1
      /\ Len(BodiesBefore(file, parser)) = parser.body - 1
  BY <1>1, <1>2, BodiesTaken
<1>6. ~reader.deferred => queued = 0
  BY DEF Reading, OneCodeSection
<1>7. declared \in Nat /\ reader.lists["function"] = ItemsUpTo(file, "function", n - 1)
  BY <1>4, LenProperties DEF Readers, Reading, Lists, StoredKinds, CheckedKinds
<1>8. "signature" \in Classes \ {"none"}
  BY DEF Classes
<1>9. ASSUME taken + queued >= declared, r.err = Error("signature")
      PROVE  Deserved(file, options, r.err)
  <2>1. given > declared
    <3> DEFINE body == parser.body
    <3>1. taken \in Nat /\ queued \in Nat /\ taken + queued = body - 1
      BY <1>5
    <3>2. body \in 1..given /\ given \in Nat
      BY <1>4
    <3>3. declared \in Nat /\ taken + queued >= declared
      BY <1>7, <1>9
    <3> HIDE DEF taken, queued, given, declared, body
    <3> QED
      BY <3>1, <3>2, <3>3
  <2>2. Error("signature") \in Faults(file, v)
    BY <1>4, <1>7, <2>1, FaultsOf
  <2> QED
    BY <1>8, <1>9, <2>2, FaultDeserved
<1>10. ASSUME Refused(b, v), r.err = <<"function", taken + 1>>, ~reader.deferred
       PROVE  Deserved(file, options, r.err)
  <2> DEFINE m == Len(BodiesBefore(file, parser))
  <2>1. m \in Nat /\ m + 1 <= Len(Bodies(file)) /\ b = Bodies(file)[m + 1]
    BY <1>1, <1>2, BodyRead
  <2>2. m = taken
    <3> DEFINE body == parser.body
    <3>1. queued = 0
      BY <1>6, <1>10
    <3>2. m = body - 1 /\ taken + queued = body - 1 /\ taken \in Nat
      BY <1>5
    <3> HIDE DEF m, taken, queued, body
    <3> QED
      BY <3>1, <3>2
  <2>3. Bodies(file) \in Seq(AllItems)
    BY <1>4, ItemsOfType DEF Bodies
  <2>4. taken + 1 \in DOMAIN Bodies(file)
    <3> DEFINE len == Len(Bodies(file))
    <3>1. DOMAIN Bodies(file) = 1..len /\ len \in Nat /\ taken \in Nat /\ taken + 1 <= len
      BY <1>5, <2>1, <2>2, <2>3, LenProperties
    <3> HIDE DEF len, taken
    <3> QED
      BY <3>1
  <2>5. \A j \in 1 .. (taken + 1) - 1 : Healthy(file, j, v)
    <3>1. reader.code \in Seq(Codes)
      BY <1>4 DEF Readers
    <3>2. DOMAIN reader.code = 1..taken
      BY <3>1, LenProperties
    <3>3. (taken + 1) - 1 = taken
      <4> HIDE DEF taken
      <4> QED
        BY <1>5
    <3> QED
      BY <1>1, <3>2, <3>3 DEF Lowering
  <2> DEFINE i == taken + 1
  <2>6. /\ i \in DOMAIN Bodies(file) /\ Refused(Bodies(file)[i], v)
        /\ \A j \in 1 .. i - 1 : Healthy(file, j, v)
    BY <1>10, <2>1, <2>2, <2>4, <2>5
  <2> HIDE DEF i
  <2>7. FaultyBodies(file, v) # {} /\ FirstFault(file, v) = <<"function", i>>
    BY <1>4, <2>6, FirstFaultIs
  <2>8. r.err = FirstFault(file, v)
    BY <1>10, <2>7 DEF i
  <2>9. Deserved(file, options, FirstFault(file, options.validation))
    BY <1>4, <2>7, FirstDeserved
  <2> QED
    BY <2>8, <2>9
<1>11. ASSUME Failed(r) PROVE Deserved(file, options, r.err)
  <2>1. CASE r = inline /\ ~reader.deferred
    <3>1. \/ taken >= declared /\ r.err = Error("signature")
          \/ Refused(b, v) /\ r.err = <<"function", taken + 1>>
      <4>1. /\ Failed(inline) /\ r = inline
            /\ inline = process_inline_code_section_entry(reader, b, options)
        BY <1>11, <2>1
      <4> HIDE DEF inline, b
      <4>2. \/ taken >= declared /\ inline.err = Error("signature")
            \/ Refused(b, v) /\ inline.err = <<"function", taken + 1>>
        BY <1>4, <4>1, InlineJudged
      <4> QED
        BY ONLY <4>1, <4>2, Zenon
    <3>2. taken >= declared => taken + queued >= declared
      <4> HIDE DEF taken, queued, declared
      <4> QED
        BY <1>5, <1>7
    <3>3. CASE taken >= declared /\ r.err = Error("signature")
      BY <1>9, <3>2, <3>3
    <3>4. CASE Refused(b, v) /\ r.err = <<"function", taken + 1>>
      <4> HIDE DEF taken
      <4> QED
        BY <1>10, <2>1, <3>4 DEF taken
    <3> QED
      BY <3>1, <3>3, <3>4
  <2>2. CASE r = queue
    <3>1. taken + queued >= declared /\ r.err = Error("signature")
      BY <1>4, <1>11, <2>2, QueueJudged
    <3> QED
      BY <1>9, <3>1
  <2> QED
    BY <1>3, <2>1, <2>2
<1>12. Proceed(r, NextPayload(r))
  BY <1>1 DEF r
<1> QED
  BY <1>11, <1>12, ProceedAnswers

\* The end of a module can be processed: it has been read, and it is not
\* followed by anything.
LEMMA ProcessEndAnswers ==
  ASSUME Types, Position, Reading, ProcessEnd
  PROVE  Answers
<1> DEFINE r == process_end(reader)
           ended == [reader EXCEPT !.end_reached = TRUE]
<1>1. /\ pc = "parse" /\ HasPayload /\ AtEnd
      /\ IF options.stream /\ (Buffered # 0 \/ ~eof)
         THEN Proceed(Fail(r, Error("trailing")), "done") ELSE Proceed(r, NextPayload(r))
  BY DEF ProcessEnd
<1>2. Buffered = 0 /\ eof
  BY <1>1 DEF HasPayload
<1>3. r = ended
  BY <1>1 DEF Position, process_end
<1>4. ended.err = NoError
  BY <1>1 DEF Types, Readers, Reading
<1> HIDE DEF ended
<1>5. ~Failed(r)
  BY <1>3, <1>4 DEF Failed
<1>6. Proceed(r, NextPayload(r))
  BY <1>1, <1>2
<1> QED
  BY <1>5, <1>6, ProceedAnswers

LEMMA FillSectionAnswers ==
  ASSUME Types, Position, FillSection
  PROVE  Answers
<1> DEFINE n == parser.section
           front == BytesUpTo(file, n - 1)
           size == SizeOf(Section)
<1>1. /\ pc = "section" /\ Buffered < size
      /\ UNCHANGED outcome \/ (read = FileBytes(file) /\ outcome' = [error |-> Error("truncated")])
  BY DEF FillSection, Return
<1>2. ~AtEnd
  BY <1>1, AtQueuedSection
<1> SUFFICES ASSUME read = FileBytes(file), outcome' = [error |-> Error("truncated")]
             PROVE  Answers
  BY <1>1 DEF Answers
<1>3. /\ file \in Files /\ n \in 1..Len(file.sections) /\ Len(file.sections) \in Nat
      /\ IsSection(Section) /\ Section = file.sections[n] /\ offset \in Nat /\ read \in Nat
  BY <1>2, AtSection DEF Types, Section
<1>4. n - 1 \in 0..Len(file.sections)
  BY <1>3
<1>5. front \in Nat /\ size \in Nat
  BY <1>3, <1>4, SectionSums, SizeFacts
<1>6. BytesUpTo(file, n) = front + (1 + size)
  BY <1>3, BytesNext DEF SectionBytes
<1>7. offset = front + 1
  BY <1>1 DEF Position
<1>8. read - offset < size
  BY <1>1 DEF Buffered
<1>9. read < BytesUpTo(file, n)
  <2> HIDE DEF front, size
  <2> QED
    BY <1>3, <1>5, <1>6, <1>7, <1>8
<1>10. file.cut > 0
  BY <1>2, <1>9, CutShort
<1>11. Error("truncated") \in Faults(file, options.validation)
  BY <1>10, FaultsOf
<1>12. "truncated" \in Classes \ {"none"}
  BY DEF Classes
<1> QED
  BY <1>11, <1>12, FaultDeserved DEF Answers

LEMMA QueueSectionAnswers ==
  ASSUME Types, Position, Reading, QueueSection
  PROVE  Answers
<1> DEFINE v == options.validation
           n == parser.section
           r == queue_owned_code_section(reader, Section)
<1>1. pc = "section" /\ Proceed(r, "parse")
  BY DEF QueueSection
<1>2. /\ ~AtEnd /\ Section.kind = "code" /\ Section.items \in Seq(AllBodies)
      /\ reader.code = <<>> /\ reader.pending = <<>>
  BY QueueSectionFacts
<1>3. /\ IsReader(reader) /\ ~Failed(reader) /\ file \in Files /\ n \in DOMAIN file.sections
      /\ Section = file.sections[n] /\ Section.junk \in Nat
  BY <1>1, <1>2, AtSection, FileFacts DEF Types, IsReader, Reading, Failed, Section, IsSection
<1>4. reader.lists["function"] = ItemsUpTo(file, "function", n - 1)
  BY DEF Reading, Lists, StoredKinds, CheckedKinds
<1>5. {"signature", "junk"} \subseteq Classes \ {"none"}
  BY DEF Classes
<1>6. ASSUME Failed(r) PROVE Deserved(file, options, r.err)
  <2>1. \/ r.err = Error("signature") /\ Len(reader.lists["function"]) < Len(Section.items)
        \/ r.err = Error("junk") /\ Section.junk > 0
    BY <1>2, <1>3, <1>6, QueueAllAppends
  <2>2. CASE r.err = Error("signature") /\ Len(reader.lists["function"]) < Len(Section.items)
    <3>1. Len(Section.items) > Len(ItemsUpTo(file, "function", n - 1))
      BY <1>4, <2>2
    <3>2. Error("signature") \in Faults(file, v)
      BY <1>2, <1>3, <3>1, FaultsOf
    <3> QED
      BY <1>5, <2>2, <3>2, FaultDeserved
  <2>3. CASE r.err = Error("junk") /\ Section.junk > 0
    <3>1. Error("junk") \in Faults(file, v)
      BY <1>3, <2>3, FaultsOf
    <3> QED
      BY <1>5, <2>3, <3>1, FaultDeserved
  <2> QED
    BY <2>1, <2>2, <2>3
<1> HIDE DEF r
<1> QED
  BY <1>1, <1>6, ProceedAnswers

LEMMA LeaveScopeAnswers ==
  ASSUME Types, Lowering, LeaveScope
  PROVE  Answers
<1>1. pc = "unwind" /\ outcome' = [error |-> reader.err]
  BY DEF LeaveScope, Return
<1>2. /\ FaultyBodies(file, options.validation) # {}
      /\ reader.err = FirstFault(file, options.validation)
  BY <1>1 DEF Lowering
<1>3. Deserved(file, options, reader.err)
  BY <1>2, FirstDeserved DEF Types
<1> QED
  BY <1>1, <1>3 DEF Answers

\* Every step but the last one.
LEMMA StepAnswers ==
  ASSUME Judging, Next, ~Finish
  PROVE  Answers
<1>1. Types /\ Position /\ (pc # "done" => Reading) /\ Pool /\ KnownFunctions /\ Lowering
  BY DEF Judging, Holding, Placing
<1>2. CASE Returned \/ \E w \in Threads : ProcessJob(w)
  BY <1>2 DEF Returned, ProcessJob, vars, Answers
<1>3. CASE Fill \/ NothingPending \/ SplitPending \/ SpawnWorker \/ AllSpawned \/ JoinWorker
           \/ AllJoined
  BY <1>3 DEF Fill, NothingPending, SplitPending, SpawnWorker, AllSpawned, JoinWorker, AllJoined,
              Answers
<1>4. CASE ProcessSection \/ BeginCodeSection \/ CodeSectionEntry \/ ProcessEnd \/ QueueSection
  <2>1. Reading
    BY <1>1, <1>4 DEF ProcessSection, BeginCodeSection, CodeSectionEntry, ProcessEnd, QueueSection
  <2> QED
    BY <1>1, <1>4, <2>1, ProcessSectionAnswers, BeginCodeSectionAnswers, CodeSectionEntryAnswers,
       ProcessEndAnswers, QueueSectionAnswers
<1>5. CASE ReadFails \/ ParserFails \/ FillSection \/ LeaveScope
  BY <1>1, <1>5, ReadFailsAnswers, ParserFailsAnswers, FillSectionAnswers, LeaveScopeAnswers
<1> QED
  BY <1>2, <1>3, <1>4, <1>5 DEF Next, CallingThread, ReadPayloads, ProcessPending

\* Sections without a fault have no more bodies than functions.
LEMMA EnoughSignatures ==
  ASSUME NEW f \in Files, NEW validation, \A i \in 1..Len(f.sections) : Sound(f, i, validation)
  PROVE  Len(Bodies(f)) <= Len(Signatures(f))
<1> DEFINE len == Len(f.sections)
           lowered(m) == Len(ItemsUpTo(f, "code", m))
           declared(m) == Len(ItemsUpTo(f, "function", m))
           T == {m \in 0..len : lowered(m) <= declared(m)}
<1>0. len \in Nat
  BY FileFacts
<1>1. \A m \in 0..len : lowered(m) \in Nat /\ declared(m) \in Nat
  BY ItemsUpToType, LenProperties
<1>2. 0 \in T
  <2>1. ItemsUpTo(f, "code", 0) = <<>> /\ ItemsUpTo(f, "function", 0) = <<>>
    BY ItemsUpToNone
  <2>2. lowered(0) = declared(0)
    BY <2>1
  <2>3. 0 \in 0..len
    BY <1>0
  <2> HIDE DEF lowered, declared, len
  <2> QED
    BY <1>1, <2>2, <2>3
<1>3. ASSUME NEW m \in 1..len, m - 1 \in T PROVE m \in T
  <2>1. m \in 1..Len(f.sections) /\ m \in 0..len /\ m - 1 \in 0..len /\ m - 1 \in 0..Len(f.sections)
    BY <1>0
  <2>2. lowered(m) \in Nat /\ declared(m) \in Nat /\ lowered(m - 1) \in Nat /\ declared(m - 1) \in Nat
    BY <1>1, <2>1
  <2>3. CASE f.sections[m].kind = "code"
    <3>1. Sound(f, m, validation)
      BY <2>1
    <3>2. \A j \in 1 .. m - 1 : f.sections[j].kind # "code"
      BY <2>3, <3>1 DEF Sound
    <3>3. ItemsUpTo(f, "code", m - 1) = <<>>
      <4> DEFINE back == m - 1
      <4>1. back \in 0..Len(f.sections) /\ \A j \in 1..back : f.sections[j].kind # "code"
        BY <2>1, <3>2
      <4> HIDE DEF back
      <4>2. ItemsUpTo(f, "code", back) = <<>>
        BY <4>1, NoItems
      <4> QED
        BY <4>2 DEF back
    <3>4. ItemsUpTo(f, "code", m) = ItemsUpTo(f, "code", m - 1) \o f.sections[m].items
      BY <2>1, <2>3, ItemsUpToNext
    <3>5. <<>> \o f.sections[m].items = f.sections[m].items
      <4>1. f.sections[m].items \in Seq(AllItems)
        BY <2>1, SectionFacts
      <4> QED
        BY <4>1, ConcatEmptySeq
    <3>6. ItemsUpTo(f, "code", m) = f.sections[m].items
      BY ONLY <3>3, <3>4, <3>5, Zenon
    <3>7. ItemsUpTo(f, "function", m) = ItemsUpTo(f, "function", m - 1)
      BY <2>1, <2>3, ItemsUpToNext
    <3>8. Len(f.sections[m].items) <= declared(m - 1)
      BY <2>3, <3>1 DEF Sound
    <3>9. lowered(m) <= declared(m)
      BY ONLY <3>6, <3>7, <3>8
    <3> QED
      BY <2>1, <3>9
  <2>4. CASE f.sections[m].kind # "code"
    <3>1. ItemsUpTo(f, "code", m) = ItemsUpTo(f, "code", m - 1)
      BY <2>1, <2>4, ItemsUpToNext
    <3>2. Starts(ItemsUpTo(f, "function", m - 1), ItemsUpTo(f, "function", m))
      <4> DEFINE back == m - 1
      <4>1. back \in 0..Len(f.sections) /\ m \in back..Len(f.sections)
        BY <1>0
      <4> HIDE DEF back
      <4>2. Starts(ItemsUpTo(f, "function", back), ItemsUpTo(f, "function", m))
        BY <4>1, ItemsUpToStarts
      <4> QED
        BY <4>2 DEF back
    <3>3. declared(m - 1) <= declared(m)
      BY <3>2 DEF Starts
    <3>4. lowered(m) = lowered(m - 1)
      BY <3>1
    <3>5. lowered(m - 1) <= declared(m - 1)
      BY <1>3
    <3> HIDE DEF lowered, declared
    <3>6. lowered(m) <= declared(m)
      BY <2>2, <3>3, <3>4, <3>5
    <3> QED
      BY <2>1, <3>6
  <2> QED
    BY <2>3, <2>4
<1>4. \A m \in 0..len : m \in T
  <2> HIDE DEF T
  <2> QED
    BY <1>0, <1>2, <1>3, UpTo
<1>5. lowered(len) <= declared(len)
  <2>1. len \in 0..len
    BY <1>0
  <2> QED
    BY <1>4, <2>1
<1> QED
  BY <1>5, ItemsUpToAll DEF Bodies, Signatures

\* A function as the reader has it in the end, and as the file declares it.
LEMMA FunctionsDeclared ==
  ASSUME Holding, pc = "finish", NEW i \in 1..Len(Bodies(file)), NEW c, c = reader.code[i]
  PROVE  [body |-> c.body, ty |-> c.ty, results |-> c.results, addr |-> c.addr,
          metadata |-> c.metadata] = FunctionOf(file, i)
<1> DEFINE ty == Signatures(file)[i]
           funcs == CountOf(ItemsOf(file, "import"), "func")
<1>1. c = CodeAt(reader, file, i)
  BY ReadAtFinish
<1>2. /\ c.body = Bodies(file)[i].id /\ c.ty = ty /\ c.results = ItemsOf(file, "type")[ty + 1]
      /\ c.addr = reader.imported_func_count + (i - 1) /\ c.metadata = translation_metadata(reader)
  BY ONLY <1>1 DEF CodeAt, FunctionCode, JobAt
<1>3. reader.imported_func_count = funcs
  BY ReadAtFinish
<1>4. c.addr = funcs + i - 1
  <2>1. funcs \in Nat
    <3>1. file \in Files
      BY DEF Holding, Placing, Types
    <3> QED
      BY <3>1, ItemsOfType, CountType
  <2>2. i \in Nat
    <3>1. Bodies(file) \in Seq(AllItems)
      BY ItemsOfType DEF Bodies, Holding, Placing, Types
    <3> QED
      BY <3>1, LenProperties
  <2>3. funcs + (i - 1) = funcs + i - 1
    <3> HIDE DEF funcs
    <3> QED
      BY <2>1, <2>2
  <2> HIDE DEF funcs
  <2> QED
    BY ONLY <1>2, <1>3, <2>3
<1>5. c.metadata = MetadataOf(ItemsOf(file, "type"), Signatures(file), ItemsOf(file, "import"),
                              ItemsOf(file, "memory"))
  <2>1. \A k \in StoredKinds : reader.lists[k] = ItemsOf(file, k)
    BY ReadAtFinish
  <2>2. /\ reader.lists["type"] = ItemsOf(file, "type")
        /\ reader.lists["function"] = ItemsOf(file, "function")
        /\ reader.lists["import"] = ItemsOf(file, "import")
        /\ reader.lists["memory"] = ItemsOf(file, "memory")
    BY <2>1 DEF StoredKinds, CheckedKinds
  <2>3. c.metadata = MetadataRead(reader)
    BY <1>2, ReadAtFinish
  <2> QED
    BY ONLY <2>2, <2>3 DEF MetadataRead, Signatures
<1> QED
  BY ONLY <1>2, <1>4, <1>5 DEF FunctionOf

\* The last step: the module that the file declares, if nothing is wrong with
\* the file.
LEMMA FinishAnswers ==
  ASSUME Judging, Finish
  PROVE  \/ Answers
         \/ /\ Faults(file, options.validation) = {}
            /\ Shown' = [error |-> NoError, module |-> ModuleOf(file)]
<1> DEFINE v == options.validation
           len == Len(file.sections)
<1>1. pc = "finish" /\ outcome' = into_module(reader, options)
  BY DEF Finish, Return
<1>2. /\ Holding /\ Types /\ Position /\ Passed /\ Lowering /\ file \in Files
      /\ reader.end_reached /\ file.cut = 0 /\ PassedAt(file, parser, v)
      /\ \A i \in DOMAIN reader.code : Healthy(file, i, v)
  BY <1>1 DEF Judging, Holding, Placing, Types, Passed, Parsed, Lowering
<1>3. \A i \in 1..len : Sound(file, i, v)
  <2>1. AtEnd /\ WellPlaced(file, parser) /\ len \in Nat
    BY <1>1, <1>2, FileFacts DEF Position, Parsed
  <2>2. parser.section - 1 = len
    BY <2>1 DEF AtEnd, WellPlaced
  <2> QED
    BY <1>2, <2>2 DEF PassedAt
<1>4. /\ \A k \in StoredKinds : reader.lists[k] = ItemsOf(file, k)
      /\ reader.code \in Seq(Codes) /\ Len(reader.code) = Len(Bodies(file))
      /\ reader.lists \in [StoredKinds -> Seq(AllItems)]
  BY <1>1, <1>2, ReadAtFinish DEF Types, Readers
<1>5. reader.lists["function"] = Signatures(file)
  BY <1>4 DEF StoredKinds, CheckedKinds, Signatures
<1>6. DOMAIN reader.code = 1..Len(Bodies(file)) /\ DOMAIN Bodies(file) = 1..Len(Bodies(file))
  BY <1>2, <1>4, ItemsOfType, LenProperties DEF Bodies
<1>7. CASE Len(Signatures(file)) # Len(Bodies(file))
  <2>1. outcome' = [error |-> Error("mismatch")]
    BY <1>1, <1>2, <1>4, <1>5, <1>7 DEF into_module
  <2> DEFINE given == Len(Bodies(file))
             declared == Len(Signatures(file))
  <2>2. given \in Nat /\ declared \in Nat
    BY <1>2, ItemsOfType, LenProperties DEF Bodies, Signatures
  <2>3. given <= declared /\ declared # given
    BY <1>2, <1>3, <1>7, EnoughSignatures
  <2>4. given < declared
    <3> HIDE DEF given, declared
    <3> QED
      BY <2>2, <2>3
  <2>5. Error("mismatch") \in Faults(file, v)
    BY <2>4, FaultsOf
  <2>6. "mismatch" \in Classes \ {"none"}
    BY DEF Classes
  <2> QED
    BY <2>1, <2>5, <2>6, FaultDeserved DEF Answers
<1>8. CASE Len(Signatures(file)) = Len(Bodies(file))
  <2>1. FaultyBodies(file, v) = {}
    BY <1>2, <1>6 DEF FaultyBodies, Healthy
  <2>2. Faults(file, v) = {}
    BY <1>2, <1>3, <1>8, <2>1, NoFaults
  <2>3. PICK allocation :
          outcome' = [error |-> NoError, funcs |-> reader.code, lists |-> reader.lists,
                      local_memory_allocation |-> allocation]
    BY <1>1, <1>2, <1>4, <1>5, <1>8 DEF into_module
  <2> DEFINE Part(c) == [body |-> c.body, ty |-> c.ty, results |-> c.results, addr |-> c.addr,
                         metadata |-> c.metadata]
             funcs == [i \in DOMAIN reader.code |-> Part(reader.code[i])]
  <2>4. Shown' = [error |-> NoError, module |-> [funcs |-> funcs, lists |-> reader.lists]]
    BY <2>3 DEF Shown
  <2>5. funcs = [i \in DOMAIN Bodies(file) |-> FunctionOf(file, i)]
    <3>1. \A i \in DOMAIN Bodies(file) : Part(reader.code[i]) = FunctionOf(file, i)
      BY <1>1, <1>2, <1>6, FunctionsDeclared
    <3> QED
      BY <1>6, <3>1
  <2>6. reader.lists = [k \in StoredKinds |-> ItemsOf(file, k)]
    BY <1>4
  <2> HIDE DEF funcs
  <2>7. Shown' = [error |-> NoError, module |-> ModuleOf(file)]
    BY <2>4, <2>5, <2>6, Zenon DEF ModuleOf
  <2> QED
    BY <2>2, <2>7
<1> QED
  BY <1>7, <1>8

-----------------------------------------------------------------------------
\* Each step is one of the abstract specification, or none.
LEMMA Refines ==
  ASSUME Judging, [Next]_vars
  PROVE  [Abstract!Parse]_<<file, options, Shown>>
<1> DEFINE v == options.validation
<1>1. UNCHANGED <<file, options>>
  BY DEF Next, CallingThread, ReadPayloads, ProcessPending, Fill, ParserFails, ProcessSection,
         BeginCodeSection, CodeSectionEntry, ProcessEnd, FillSection, QueueSection, NothingPending,
         SplitPending, SpawnWorker, AllSpawned, JoinWorker, AllJoined, LeaveScope, Finish, ReadFails,
         ProcessJob, Returned, Consume, vars, input
<1>2. CASE UNCHANGED outcome
  BY <1>1, <1>2 DEF Shown
<1>3. CASE ~UNCHANGED outcome
  <2>1. Next
    BY <1>3 DEF vars
  <2>2. pc # "done"
    BY <1>3, <2>1 DEF Next, CallingThread, ReadPayloads, ProcessPending, Fill, ParserFails,
         ProcessSection, BeginCodeSection, CodeSectionEntry, ProcessEnd, FillSection, QueueSection,
         NothingPending, SplitPending, SpawnWorker, AllSpawned, JoinWorker, AllJoined, LeaveScope,
         Finish, ReadFails, ProcessJob, Returned, vars
  <2>3. outcome = Pending
    BY <2>2 DEF Judging, Holding, Placing, Types
  <2>4. Shown = Abstract!Pending
    <3>1. Pending.error # NoError
      BY DEF Pending, Error, NoError
    <3> QED
      BY <2>3, <3>1, SameOutcomes DEF Shown
  <2>5. Shown' \in Outcomes(file, options)
    <3>1. CASE Answers
      <4>1. PICK e : Deserved(file, options, e) /\ outcome' = [error |-> e]
        BY <1>3, <3>1 DEF Answers
      <4>2. Shown' = [error |-> e]
        BY <4>1 DEF Shown, Deserved
      <4>3. e \in Faults(file, v) => [error |-> e] \in Outcomes(file, options)
        BY DEF Outcomes
      <4>4. options.stream /\ e = Error("read") => [error |-> e] \in Outcomes(file, options)
        BY DEF Outcomes
      <4> QED
        BY <4>1, <4>2, <4>3, <4>4 DEF Deserved
    <3>2. CASE ~Answers
      <4>1. Faults(file, v) = {} /\ Shown' = [error |-> NoError, module |-> ModuleOf(file)]
        BY <2>1, <3>2, StepAnswers, FinishAnswers
      <4> QED
        BY <4>1 DEF Outcomes
    <3> QED
      BY <3>1, <3>2
  <2> QED
    BY <1>1, <2>4, <2>5, SameOutcomes DEF Abstract!Parse
<1> QED
  BY <1>2, <1>3

\* Parser::parse_module_bytes and parse_module_stream: whatever the pieces are
\* in which a stream delivers its bytes, and however the worker threads that
\* lower the function bodies are scheduled, a call returns nothing but the
\* module that the file declares, when nothing is wrong with it, or else an
\* error that is there, of the errors in function bodies the first one.
THEOREM ParseRefines == Spec => ParsesAsDeclared
<1>1. Init => Judging
  <2>1. Init => joined <= Len(workers)
    BY DEF Init
  <2> QED
    BY <2>1, InitTypes, InitPosition, InitReading, InitKnown, InitJudging
       DEF Judging, Holding, Placing
<1>2. Init => Abstract!Init
  <2> SUFFICES ASSUME Init PROVE Abstract!Init
    OBVIOUS
  <2>1. Pending.error # NoError
    BY DEF Pending, Error, NoError
  <2>2. Shown = Abstract!Pending
    BY <2>1, SameOutcomes DEF Init, Shown
  <2> QED
    BY <2>2 DEF Init, Abstract!Init
<1>3. Judging /\ [Next]_vars => [Abstract!Parse]_<<file, options, Shown>>
  BY Refines
<1> QED
  BY <1>1, <1>2, <1>3, JudgingStep, PTL DEF Spec, ParsesAsDeclared, Abstract!Spec
=============================================================================

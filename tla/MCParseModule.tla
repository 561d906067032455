---------------------------- MODULE MCParseModule ---------------------------
(***************************************************************************)
(* Small files.  Plain ones vary the functions, their sizes and faults and *)
(* what the module does with memories; each damaged one has one thing wrong*)
(* with its sections, with a faulty function beside it or without.         *)
(***************************************************************************)
EXTENDS ParseModule

S(kind, items) == [kind |-> kind, items |-> items, junk |-> 0, fault |-> "none"]
Faulty(s, fault) == [s EXCEPT !.fault = fault]

Access(mem) == [op |-> "load", mem |-> mem, data |-> 0]
DataInit(mem, data) == [op |-> "memory.init", mem |-> mem, data |-> data]

Body(id, len) == [id |-> id, len |-> len, fault |-> "none", instrs |-> {}]
Code(lens) == S("code", [i \in DOMAIN lens |-> Body(i, lens[i])])

File(sections) == [sections |-> sections, cut |-> 0]

\* Two types; function i has one or the other.
Head_(n) == <<S("version", <<"module">>), S("type", <<0, 1>>), S("import", <<"func">>),
              S("function", [i \in 1 .. n |-> i % 2])>>

\* Functions of different sizes, at most two of them with a fault.
Spread == {<<1, 4>>, <<2, 2, 2>>, <<2, 2, 2, 2>>, <<1, 1, 1, 5>>, <<4, 0>>, <<2, 2, 0>>}
FaultsIn(n) ==
  {[i \in 1 .. n |-> "none"]} \cup
  {[i \in 1 .. n |-> IF i = a THEN "reader" ELSE IF i = b THEN "validator" ELSE "none"]
     : a, b \in 1 .. n}
WithFaults(code, faults) ==
  [code EXCEPT !.items = [i \in DOMAIN @ |->
     [@[i] EXCEPT !.fault = IF code.items[i].len = 0 THEN "reader" ELSE faults[i]]]]
Functions ==
  UNION {{File(Append(Head_(Len(lens)), WithFaults(Code(lens), faults)))
            : faults \in FaultsIn(Len(lens))} : lens \in Spread}

\* Memories: imported or not, exported or not, filled, accessed.
Memories ==
  LET Using(instrs) == [Code(<<2, 2>>) EXCEPT !.items[2].instrs = instrs]
      Module(import, export, data, instrs) ==
        File(<<S("version", <<"module">>), S("type", <<0>>), S("import", import),
               S("function", <<0, 0>>), S("memory", <<"mem">>), S("export", export),
               S("datacount", <<1>>), Using(instrs), S("data", data)>>)
  IN {Module(import, export, data, instrs) :
        import \in {<<>>, <<"memory">>}, export \in {<<0>>, <<1>>, <<>>},
        data \in {<<-1>>, <<1>>},
        instrs \in {{}, {Access(0)}, {Access(0), Access(1)}, {DataInit(1, 0)}}}

\* Sections missing, repeated, out of order, unknown, faulty or cut short.
Base(fault) ==
  Append(Head_(2), WithFaults(Code(<<2, 3>>), <<"none", fault>>)) \o
  <<S("custom", <<>>), S("data", <<-1>>)>>
Damaged ==
  LET Replace(s, i, x) == [s EXCEPT ![i] = x]
      Damages(s) ==
        {Replace(s, 4, S("function", <<0>>)), Replace(s, 4, S("function", <<0, 0, 1>>)),
         Replace(s, 4, S("function", <<0, 2>>)), Replace(s, 5, [s[5] EXCEPT !.junk = 1]),
         Replace(s, 1, Faulty(s[1], "reader")), Replace(s, 7, Faulty(s[7], "validator")),
         Replace(s, 5, Faulty(s[5], "validator")),
         InsertAt(s, 6, s[5]), InsertAt(s, 3, s[2]), Append(s, s[7]),
         Append(s, S("unknown", <<>>)), Append(s, S("global", <<"g">>)),
         InsertAt(s, 5, S("element", <<"e">>)), InsertAt(s, 5, S("start", <<0>>)),
         SubSeq(s, 1, 4), SubSeq(s, 1, 5), InsertAt(s, 7, S("data", <<>>)),
         Replace(Replace(s, 2, s[4]), 4, s[2]), Replace(Replace(s, 4, s[5]), 5, s[4])}
  IN UNION {{File(s) : s \in Damages(Base(fault))} : fault \in {"none", "reader"}}
Cut ==
  {[sections |-> SubSeq(Base("none"), 1, n), cut |-> 1] : n \in {4, 5, 7}} \cup
  {[sections |-> SubSeq(Base("reader"), 1, 5), cut |-> c] : c \in {2, 5}}

MCFiles == Functions \cup Memories \cup Damaged \cup Cut

MCOptions ==
  [validation : BOOLEAN, optimize_local_memory_allocation : {TRUE},
   parser_threads : {Automatic, 1, 2}, stream : BOOLEAN] \cup
  [validation : {TRUE}, optimize_local_memory_allocation : {FALSE},
   parser_threads : {3}, stream : BOOLEAN]

=============================================================================

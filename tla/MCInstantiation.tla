-------------------------- MODULE MCInstantiation --------------------------
(***************************************************************************)
(* Three modules.  Library has a table it exports, a passive element       *)
(* segment, a global that holds a function and a lazily allocated memory.  *)
(* Plugin imports the table and a function; its second active segment fits *)
(* only a table that has grown.  Late imports the memory and the global; it*)
(* computes an offset that wraps, so its first data segment traps and its  *)
(* passive one gets no address.                                            *)
(***************************************************************************)
EXTENDS Instantiation

CONSTANTS f, g

I32(n) == <<[op |-> "i32.const", arg |-> n]>>
Func(n) == <<[op |-> "ref.func", arg |-> n]>>
RefNull == <<[op |-> "ref.null"]>>
Get(n) == <<[op |-> "global.get", arg |-> n]>>

Table(min, max) == [kind |-> "table", el |-> "func", arch |-> "i32", initial |-> min, max |-> max]
Memory(min, max) == [kind |-> "memory", arch |-> "i32", page |-> PageSize, initial |-> min, max |-> max]
Global(ty, mutable) == [kind |-> "global", ty |-> ty, mutable |-> mutable]

Library ==
  [imports |-> <<>>, funcs |-> <<f>>, tables |-> <<Table(1, 2)>>,
   memories |-> <<Memory(1, 1)>>, allocation |-> "lazy",
   globals |-> <<[ty |-> Global("ref", TRUE), init |-> Func(0)]>>,
   elements |-> <<[kind |-> "passive", items |-> <<Func(0)>>]>>,
   data |-> <<>>,
   exports |-> <<[name |-> "t", kind |-> "table", index |-> 0],
                 [name |-> "f", kind |-> "func", index |-> 0],
                 [name |-> "m", kind |-> "memory", index |-> 0],
                 [name |-> "g", kind |-> "global", index |-> 0]>>]

Plugin ==
  [imports |-> <<[name |-> "t", ty |-> Table(1, 2)],
                 [name |-> "f", ty |-> [kind |-> "func", ty |-> f]]>>,
   funcs |-> <<g>>, tables |-> <<>>,
   memories |-> <<Memory(1, 1)>>, allocation |-> "eager",
   globals |-> <<[ty |-> Global("i32", FALSE), init |-> I32(1)]>>,
   elements |-> <<[kind |-> "active", table |-> 0, offset |-> I32(0), items |-> <<Func(1)>>],
                  [kind |-> "active", table |-> 0, offset |-> Get(0), items |-> <<RefNull>>],
                  [kind |-> "declared", items |-> <<Func(1)>>]>>,
   data |-> <<[kind |-> "active", mem |-> 0, offset |-> I32(0), len |-> 1],
              [kind |-> "passive", len |-> 1]>>,
   exports |-> <<>>]

Late ==
  [imports |-> <<[name |-> "m", ty |-> Memory(0, 1)],
                 [name |-> "g", ty |-> Global("ref", TRUE)]>>,
   funcs |-> <<f>>, tables |-> <<>>, memories |-> <<>>, allocation |-> "skip",
   globals |-> <<[ty |-> Global("ref", FALSE), init |-> Func(0)]>>,
   elements |-> <<>>,
   data |-> <<[kind |-> "active", mem |-> 0,
               offset |-> I32(0) \o I32(1) \o <<[op |-> "i32.sub"]>>, len |-> 1],
              [kind |-> "passive", len |-> 1]>>,
   exports |-> <<>>]

MCModules == {Library, Plugin, Late}
=============================================================================

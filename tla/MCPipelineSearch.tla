--------------------------- MODULE MCPipelineSearch ---------------------------
(* Small handlers for PipelineSearch.                                       *)
EXTENDS PipelineSearch

O(n) == <<"op", n>>
V(n) == <<"val", n>>
Op(kind, uses, outs) == [kind |-> kind, uses |-> uses, outs |-> outs, key |-> {}]
Import(t)       == Op("import", {}, (V(t) :> 65))
Lookup(t, k, v) == [Op("lookup", {V(t), V(k)}, (V(v) :> 33)) EXCEPT !.key = {V(k)}]
Update(t, k, v) == [Op("update", {V(t), V(k), V(v)}, <<>>) EXCEPT !.key = {V(k)}]
Arith(u, v)     == Op("arith", {V(x) : x \in u}, (V(v) :> 33))
Const(v)        == Op("const", {}, (V(v) :> 33))
Extract(u, v, w) == Op("extract", {V(u)}, (V(v) :> 129) @@ (V(w) :> 33))
Send(u)         == Op("init", {V(x) : x \in u}, (V("ev") :> 1 + 32 * Cardinality(u)))
Return          == Op("return", {V("ev")}, <<>>)
Args(A)         == [v \in {V(a) : a \in A} |-> 33]
Body3(A, ops)   == [args |-> Args(A), ops |-> ops @@ (O("ret") :> Return)]

(* Two lookups, the second with what the first one found.                   *)
Chain ==
  Body3({"k"},
        (O("i1") :> Import("t1")) @@ (O("l1") :> Lookup("t1", "k", "a"))
     @@ (O("i2") :> Import("t2")) @@ (O("l2") :> Lookup("t2", "a", "b"))
     @@ (O("ev") :> Send({"b"})))

Chain3 ==
  Body3({"k"},
        (O("i1") :> Import("t1")) @@ (O("l1") :> Lookup("t1", "k", "a"))
     @@ (O("i2") :> Import("t2")) @@ (O("l2") :> Lookup("t2", "a", "b"))
     @@ (O("i3") :> Import("t3")) @@ (O("l3") :> Lookup("t3", "b", "c"))
     @@ (O("add") :> Arith({"a", "c"}, "d"))
     @@ (O("ev") :> Send({"a", "d"})))

(* Read, change and write back, and a lookup with another key.              *)
Counter ==
  Body3({"k", "j"},
        (O("i1") :> Import("t1")) @@ (O("l1") :> Lookup("t1", "k", "a"))
     @@ (O("add") :> Arith({"a", "j"}, "b")) @@ (O("u1") :> Update("t1", "k", "b"))
     @@ (O("i2") :> Import("t2")) @@ (O("l2") :> Lookup("t2", "j", "c"))
     @@ (O("ev") :> Send({"c", "b"})))

Plain ==
  Body3({"k"},
        (O("one") :> Const("one")) @@ (O("a1") :> Arith({"k", "one"}, "a"))
     @@ (O("a2") :> Arith({"a", "one"}, "b")) @@ (O("a3") :> Arith({"b"}, "c"))
     @@ (O("ev") :> Send({"c"})))

OneTable ==
  Body3({"k"},
        (O("one") :> Const("one")) @@ (O("i1") :> Import("t1"))
     @@ (O("l1") :> Lookup("t1", "k", "a"))
     @@ (O("a2") :> Arith({"a", "one"}, "b")) @@ (O("u1") :> Update("t1", "k", "b"))
     @@ (O("ev") :> Send({"b"})))

TwoKeys ==
  Body3({"k"},
        (O("one") :> Const("one")) @@ (O("i1") :> Import("t1"))
     @@ (O("l1") :> Lookup("t1", "k", "a"))
     @@ (O("l2") :> Lookup("t1", "a", "b")) @@ (O("a2") :> Arith({"a", "b", "one"}, "c"))
     @@ (O("ev") :> Send({"c", "k"})))

(* Two events.                                                              *)
TwoEvents ==
  Body3({"k", "j"},
        (O("i1") :> Import("t1")) @@ (O("l1") :> Lookup("t1", "k", "a"))
     @@ (O("i2") :> Import("t2")) @@ (O("l2") :> Lookup("t2", "j", "b"))
     @@ (O("log") :> Op("init", {V("a")}, (V("log") :> 33)))
     @@ (O("ret2") :> Op("return", {V("log")}, <<>>))
     @@ (O("ev") :> Send({"b"})))

(* Nothing the Netronome model counts.                                      *)
Forward == Body3({"k"}, (O("ev") :> Send({"k"})))

Small == {Chain, Chain3, Counter, Plain, OneTable, TwoKeys, TwoEvents, Forward}

(* Eleven updates of one table, with a key each.                            *)
Eleven ==
  LET I == 1..11
      key == [i \in I |-> <<"key", i>>]
  IN  [args |-> [v \in Range(key) |-> 33],
       ops  |-> [o \in {<<"upd", i>> : i \in I} |->
                   [kind |-> "update", uses |-> {V("t"), key[o[2]]}, outs |-> <<>>,
                    key |-> {key[o[2]]}]]
             @@ (O("i1") :> Import("t"))]
Large == {Eleven}
=============================================================================

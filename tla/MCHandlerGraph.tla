--------------------------- MODULE MCHandlerGraph ---------------------------
(* Programs for TLC.                                                       *)
EXTENDS HandlerGraph

CONSTANTS Bits, Buf

Ref(field, type) == [field |-> field, type |-> type]

(* A handler per name.  Those of event A differ in their atom, and an      *)
(* event A with another atom goes to the one without.                      *)
Names == <<<<"R", "">>, <<"A", "x">>, <<"A", "">>, <<"B", "">>>>
Events == {<<"A", "x">>, <<"A", "y">>, <<"B", "">>, <<"R", "">>}

Refs == <<<<Ref("f", AnyType)>>, <<Ref("g", Buf), Ref("f", AnyType)>>,
          <<Ref("f", Bits)>>, <<Ref("h", AnyType), Ref("g", AnyType)>>>>

Program(extern, returns) ==
  [handlers |-> DOMAIN Names, extern |-> extern, name |-> Names,
   returns |-> returns, refs |-> Refs]

(* Every program of the four handlers in which the last two generate at    *)
(* most one event each.                                                    *)
AllReturns == {SetToSeq(S) : S \in SUBSET Events}
FourHandlers ==
  {Program({}, <<a, b, c, d>>) :
     a, b \in AllReturns,
     c, d \in {r \in AllReturns : Len(r) <= 1}}

(* Handlers that generate an event twice, and an extern handler.           *)
Twice ==
  {Program({4}, <<a, b, c>>) :
     a, b, c \in {<<>>, <<<<"B", "">>, <<"B", "">>>>,
                  <<<<"A", "y">>, <<"B", "">>, <<"A", "y">>>>}}

SomePrograms == FourHandlers \cup Twice
=============================================================================

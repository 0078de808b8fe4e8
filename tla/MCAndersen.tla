----------------------------- MODULE MCAndersen -----------------------------
(***************************************************************************)
(* Inputs for the solver.                                                  *)
(***************************************************************************)
EXTENDS PointsTo

Con(t, d, s, k) == [type |-> t, dest |-> d, src |-> s, off |-> k]
Addr(d, s) == Con("AddressOf", d, s, 0)
Copy(d, s) == Con("Copy", d, s, 0)
Load(d, s) == Con("Load", d, s, 0)
Store(d, s) == Con("Store", d, s, 0)

(* What CollectConstraints always begins with.                              *)
Fixed == <<Addr(UniversalSet, UniversalSet), Store(UniversalSet, UniversalSet),
           Addr(NullPtr, NullObject)>>

Input(n, cs) == [nodes |-> n, constraints |-> Fixed \o cs, functions |-> <<>>]

(* Two objects 3 and 4 that can hold pointers, three pointers 5, 6 and 7,   *)
(* two of them with an initial member, and every choice of MaxConstraints   *)
(* of the constraints between the pointers.                                 *)
Ptr == {5, 6, 7}
Pool == {Copy(d, s) : d \in Ptr, s \in Ptr}
          \cup {Load(d, s) : d \in Ptr, s \in Ptr} \cup {Store(d, s) : d \in Ptr, s \in Ptr}
Small == {Input(8, <<Addr(5, 3), Addr(6, 4), Addr(4, 3)>> \o SetToSeq(cs)) :
             cs \in {{a, b, c} : a \in Pool, b \in Pool, c \in Pool}}

(* A call through p, which is node 12 and may be function F, nodes 4 to 6   *)
(* (itself, its result, its second argument; the first is no pointer) or    *)
(* function G, nodes 8 and 9      (itself, its argument): 13 = p(0, 11).     *)
(* Pointer 14 is null or unknown and is stored and loaded through.          *)
Calls ==
    [nodes |-> 16,
     constraints |-> Fixed \o
        <<Addr(4, 3), Addr(8, 7), Addr(11, 10), Copy(12, 4), Copy(12, 8), Copy(5, 6),
          Con("Store", 12, UniversalSet, 2), Con("Store", 12, 11, 3), Con("Load", 13, 12, 1),
          Copy(14, NullPtr), Copy(14, UniversalSet), Copy(14, 11), Store(14, 9), Load(15, 14),
          Store(14, 15)>>,
     functions |-> 3 :> [node |-> 4, returns |-> TRUE, vararg |-> FALSE, pointer |-> <<FALSE, TRUE>>]
                @@ 7 :> [node |-> 8, returns |-> FALSE, vararg |-> FALSE, pointer |-> <<TRUE>>]]

(* Search pairs 5 with node 7: x = *r, *r = 6, *r = 7, 7 = 6 is no cycle.   *)
FalsePair == Input(9, <<Addr(6, 3), Addr(5, 8), Addr(8, 4), Load(4, 5), Store(5, 6),
                        Store(5, 7), Copy(7, 6)>>)

(* The cycle 7, 8 hangs on the cycle 5, 6 and has a member more.            *)
Inner == Input(10, <<Addr(5, 3), Addr(9, 4), Copy(6, 5), Copy(5, 6), Copy(7, 5), Copy(8, 7),
                     Copy(7, 8), Copy(8, 9)>>)

(* Two pairs that share the member 3 of 5 and 6.                            *)
Shared == Input(9, <<Addr(5, 3), Copy(6, 5), Load(7, 5), Store(5, 7), Load(8, 6), Store(6, 8)>>)

(* Two cycles through memory, 12 = *16, *16 = 12 and 9 = *13, *13 = 9,      *)
(* where 16 may be 13, and 12 and 9 each have such a cycle of their own.    *)
Nested == Input(18,
    <<Addr(8, 3), Addr(10, 4), Addr(13, 5), Addr(14, 6), Copy(11, 8), Copy(11, 10),
      Copy(16, 13), Copy(16, 14), Load(9, 13), Store(13, 9), Load(12, 16), Store(16, 12),
      Load(15, 12), Store(12, 15), Copy(15, 11), Load(17, 9), Store(9, 17),
      Copy(7, 15), Copy(7, 14)>>)

(* A nested union that joins nodes still on the stack of QueryNode.         *)
Tangled == Input(12,
    <<Addr(6, 3), Addr(8, 4), Addr(9, 5), Addr(3, 3), Load(6, 9), Store(9, 6),
      Load(9, 8), Store(8, 9), Load(10, 9), Store(9, 10), Load(7, 8), Store(8, 7),
      Copy(10, 9), Copy(6, 8), Copy(7, 9), Copy(7, 11), Load(8, 7), Load(9, 10)>>)

AllPrograms == Small \cup {Calls, FalsePair, Inner, Shared, Nested, Tangled}
NestedProgram == {Nested}
=============================================================================

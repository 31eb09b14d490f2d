--------------------------- MODULE MCLinkClosure ---------------------------
(***************************************************************************)
(* Three sequence files with every combination of five #include lines      *)
(* (chains, a cycle of two, a cycle of three, two ways to one file) and an *)
(* object of class x in file c.  b and x declare a function, a and c none. *)
(***************************************************************************)
EXTENDS LinkClosure, TLC

CONSTANTS a, b, c, x

MCNames == {a, b, c, x}

Row(scope, class) == [scope |-> scope, class |-> class]

(* Keys 1 to 3: each file mentions itself.  Key 4: the object.             *)
Fixed == (1 :> Row(a, a)) @@ (2 :> Row(b, b)) @@ (3 :> Row(c, c))
         @@ (4 :> Row(c, x))

Includes == (5 :> Row(a, b)) @@ (6 :> Row(b, c)) @@ (7 :> Row(c, a))
            @@ (8 :> Row(b, a)) @@ (9 :> Row(a, c))

MCDecl == (1 :> [class |-> b]) @@ (2 :> [class |-> x])

MCTables ==
  {[list |-> [i \in (1 .. 4) \cup I |-> (Fixed @@ Includes)[i]],
    decl |-> MCDecl] : I \in SUBSET (5 .. 9)}

MCListIds == 1 .. 9
MCDeclIds == 1 .. 2
=============================================================================

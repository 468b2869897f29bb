--------------------------- MODULE FloatPassesMC ---------------------------
(***************************************************************************)
(* Functions of two arguments, 1 and 2, whose names are numbers as those   *)
(* of the blocks, 11 and on: straight-line code of two additions and a     *)
(* comparison; a loop on one block, whose PHI has an entry for the block   *)
(* itself; a diamond with an addition in either branch; a sum and a        *)
(* difference with constants.                                              *)
(***************************************************************************)
EXTENDS FloatPasses

A == Val(1)
B == Val(2)
I(name, op, x, y) == [name |-> name, op |-> op, x |-> x, y |-> y]
Phi(name, in) == [name |-> name, op |-> "phi", in |-> in]
Ret == [cond |-> Bool(TRUE), to |-> << >>, user |-> TRUE]
Br(cond, to) == [cond |-> cond, to |-> to, user |-> TRUE]

Fn(type, main, optnone, layout, code, br) ==
  [type |-> type, main |-> main, optnone |-> optnone, args |-> {1, 2}, entry |-> 11,
   last |-> 20, layout |-> layout, code |-> code, br |-> br]

\* s = a + b, t = s + a, s = t?
Line(pred, type, main, optnone) ==
  Fn(type, main, optnone, <<11>>,
     11 :> <<I(3, "fadd", A, B), I(4, "fadd", Val(3), A), I(5, pred, Val(3), Val(4))>>, 11 :> Ret)

\* do y = x + b while it changes, or while it does not
Loop(pred) ==
  Fn("double", TRUE, FALSE, <<11, 12, 13>>,
     (11 :> << >>) @@
     (12 :> <<Phi(3, (11 :> A) @@ (12 :> Val(4))), I(4, "fadd", Val(3), B), I(5, pred, Val(4), Val(3))>>) @@
     (13 :> <<I(6, "fadd", Val(4), Val(3))>>),
     (11 :> Br(Bool(TRUE), <<12>>)) @@ (12 :> Br(Val(5), <<13, 12>>)) @@ (13 :> Ret))

\* if a = b then s = a + b, u = s + s else t = b + b; v = u or t, w = v + a
Diamond(pred) ==
  Fn("double", TRUE, FALSE, <<11, 12, 13, 14>>,
     (11 :> <<I(3, pred, A, B)>>) @@
     (12 :> <<I(4, "fadd", A, B), I(5, "fadd", Val(4), Val(4))>>) @@
     (13 :> <<I(6, "fadd", B, B)>>) @@
     (14 :> <<Phi(7, (12 :> Val(5)) @@ (13 :> Val(6))), I(8, "fadd", Val(7), A)>>),
     (11 :> Br(Val(3), <<12, 13>>)) @@ (12 :> Br(Bool(TRUE), <<14>>)) @@
     (13 :> Br(Bool(TRUE), <<14>>)) @@ (14 :> Ret))

\* 5 + x - y in the integers
Offsets(x, y) ==
  Fn("double", TRUE, FALSE, <<11>>,
     11 :> <<I(3, "add", Integer(5), Integer(x)), I(4, "sub", Val(3), Integer(y))>>, 11 :> Ret)

\* Constants of an integer type of 4 bits, with an int of 3: 15 is -1, 6 is no int,
\* and 12 is the least int, which has no negative.
MCFunctions ==
  {Line(pred, "double", TRUE, FALSE) : pred \in Equality}
    \cup {Line("une", "float", TRUE, FALSE), Line("ueq", "double", TRUE, TRUE), Line("one", "double", FALSE, FALSE)}
    \cup {Loop("oeq"), Loop("une"), Diamond("one"), Diamond("ueq"), Offsets(3, 15), Offsets(6, 12)}

MCNumbers == {NaN, Inf, Num(0), Num(1), Num(-4)}
=============================================================================

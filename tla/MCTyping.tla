------------------------------ MODULE MCTyping ------------------------------
(* All operators on all pairs of static types, 4-bit integers. *)
EXTENDS Typing

MCInts    == {-8, -1, 0, 1, 7}
MCUInts   == {0, 1, 8, 15}
MCNumbers == {NaN, <<"inf", 1>>, <<"inf", -1>>} \cup {Fin(h) : h \in {0, 2, -3, 15, 16, -17, 31}}
MCTexts   == {<<>>, number_to_string(Fin(2)), Lit("x")}
MCBoxedNumbers == {Boxed("Int", -1), Boxed("UInt", 15), Boxed("UInt", 1), Boxed("Number", NaN),
                   Boxed("Number", Fin(0)), Boxed("Number", Fin(2)), Boxed("Number", Fin(15))}

Statement(op, l, r, to, cell) == [op |-> op, l |-> l, r |-> r, to |-> to, cell |-> cell]

MCBinaryOps == BinaryOps
CompoundOps == {"+", "-", "|", "^", ">>", ">>>", "&&", "||"}
Targets     == VariableTypes \ {"Any"}

MCStatements ==
  {Statement(op, l, r, "auto", FALSE) : op \in MCBinaryOps, l \in OperandTypes, r \in OperandTypes}
  \cup UNION {{Statement(op, l, r, l, cell) : op \in CompoundOps, r \in OperandTypes, cell \in BOOLEAN} :
               l \in MachineTypes \cup {"String", "Any", "A"}}
  \cup {Statement(op, l, "none", "auto", FALSE) : op \in UnaryOps \ {"++", "--"}, l \in OperandTypes}
  \cup UNION {{Statement(op, l, "none", l, cell) : op \in {"++", "--"}, cell \in BOOLEAN} : l \in VariableTypes}
  \cup {Statement(op, l, t, "auto", FALSE) : op \in TypeOps, l \in OperandTypes, t \in Targets}
  \cup {Statement("=", l, "none", t, cell) : l \in OperandTypes, t \in VariableTypes, cell \in BOOLEAN}

MCCasts == {Statement("cast", l, t, "auto", FALSE) : l \in OperandTypes, t \in MachineTypes \cup {"String"}}
=============================================================================

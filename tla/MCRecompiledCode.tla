--------------------------- MODULE MCRecompiledCode ---------------------------
(***************************************************************************)
(* Programs for TLC: every shape that a callee of a few words can take,    *)
(* and programs that use the other ways to get from function to function.  *)
(***************************************************************************)
EXTENDS RecompiledCode

Word(op) == [op |-> op, to |-> 0, table |-> {}]
To(op, a) == [op |-> op, to |-> a, table |-> {}]
Switch(cases) == [op |-> "jr", to |-> 0, table |-> cases]

Fn(start, end) == [start |-> start, end |-> end, stub |-> FALSE]
Stub(start) == [start |-> start, end |-> start + 1, stub |-> TRUE]

Placed(first, words) == [a \in first .. first + Len(words) - 1 |-> words[a - first + 1]]

(* A function that calls the one at the given word and returns.            *)
Caller(callee) ==
    <<Word("save"), To("jal", callee), Word("alu"), Word("restore"), Word("return"), Word("alu")>>

(* The words 8 to 11 of a callee at 7 to 13: any words that are well       *)
(* formed, with jumps to 8 to 12 in every direction.                       *)
Repertoire ==
    <<Word("alu"), Word("syscall")>>
    \o [i \in 1 .. 15 |-> To(<<"branch", "likely", "j">>[1 + (i % 3)], 8 + (i % 5))]

Chosen(b) == [i \in 1 .. 4 |-> Repertoire[b[i]]]

Bodies ==
    {b \in [1 .. 4 -> 1 .. Len(Repertoire)] :
        /\ ~HasDelaySlot(Repertoire[b[4]])
        /\ \A i \in 1 .. 3 : HasDelaySlot(Repertoire[b[i]]) => b[i + 1] = 1}

WithBody(b) ==
    [funs |-> {Fn(1, 7), Fn(7, 14)},
     code |-> Placed(1, Caller(7) \o <<Word("alu")>> \o b \o <<Word("return"), Word("alu")>>),
     relocated |-> {}, entry |-> 1]

(* Calls through a pointer and by name, three deep, an HLE stub, an HLE    *)
(* handler in the place of a call, and a tail jump whose slot restores $ra.*)
Nested ==
    [funs |-> {Fn(1, 13), Fn(13, 20), Fn(20, 25), Stub(25)},
     code |-> Placed(1,
        <<Word("save"), To("load", 13), Word("jalr"), Word("alu"),              \*  1
          To("jal", 25), Word("alu"), To("jal", 25), Word("alu"),               \*  5
          Word("restore"), Word("syscall"), Word("return"), Word("alu"),        \*  9
          Word("save"), To("jal", 20), Word("alu"), To("branch", 16),       \* 13
          Word("alu"), To("j", 20), Word("restore"),                            \* 17
          Word("alu"), To("likely", 21), Word("alu"), Word("return"), Word("alu")>>), \* 20
     relocated |-> {7}, entry |-> 1]

(* A branch into the middle of another function, a switch with a case of   *)
(* its own and one outside, and a function that runs on into the next one. *)
Crossing ==
    [funs |-> {Fn(1, 7), Fn(7, 15), Fn(15, 19)},
     code |-> Placed(1, Caller(7) \o
        <<To("branch", 17), Word("alu"), To("load", 16), To("likely", 12),      \*  7
          To("load", 14), Switch({14, 16}), Word("alu"), Word("alu"),           \* 11
          Word("alu"), Word("alu"), Word("return"), Word("alu")>>),             \* 15
     relocated |-> {}, entry |-> 1]

(* A register jump that no switch was found for, to words of its own       *)
(* function: every word of it is in the table.                             *)
Unresolved ==
    [funs |-> {Fn(1, 7), Fn(7, 15)},
     code |-> Placed(1, Caller(7) \o
        <<To("load", 12), To("likely", 10), To("load", 13), Switch({}),         \*  7
          Word("alu"), Word("syscall"), Word("return"), Word("alu")>>),         \* 11
     relocated |-> {}, entry |-> 1]

Others == <<Nested, Crossing, Unresolved>>

MCPrograms ==
    [b \in Bodies \cup {<<i>> : i \in DOMAIN Others} |->
        IF Len(b) = 1 THEN Others[b[1]] ELSE WithBody(Chosen(b))]

(* A callee whose loop begins at its first word.                           *)
LoopAtStart ==
    [funs |-> {Fn(1, 7), Fn(7, 12)},
     code |-> Placed(1, Caller(7) \o
        <<Word("alu"), To("branch", 7), Word("alu"), Word("return"), Word("alu")>>),
     relocated |-> {}, entry |-> 1]

MCLoopAtStart == <<LoopAtStart>>
==============================================================================

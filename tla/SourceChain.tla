---------------------------- MODULE SourceChain ----------------------------
(***************************************************************************)
(* What a DMA channel promises to a program that gives it chains of tags   *)
(* in memory: the tags are followed one by one, CALL and RET nest two      *)
(* deep, and what the tags carry goes out in their order, each once,       *)
(* however often the channel stops on the way and is started again.  What  *)
(* the program asks for is part of the promise: a chain begins, and a      *)
(* block goes out, only when a start asks for that very one, and nothing   *)
(* but a start and the tags moves the channel.                             *)
(***************************************************************************)
EXTENDS Integers, Sequences, FiniteSets

CONSTANTS
    Me,            \* the channel's name
    Vif            \* the channel feeds a VIF: tags carry VIF codes themselves

VARIABLES
    mem,           \* the quadwords of memory, from address 0
    on,            \* is the controller enabled?
    given,         \* how often the program has started a channel
    asked,         \* what its last start asked for: [c, what, addr, n]
    pc,            \* the address of the next tag
    stack,         \* return addresses, the innermost last
    sent,          \* what the channel has put out: <<"qword" or "upper", address>>
    ended          \* the chain has come to its end

vars == <<mem, on, given, asked, pc, stack, sent, ended>>
chainVars == <<pc, stack, sent, ended>>

Size == Cardinality(DOMAIN mem)

\* n quadwords from a, from the top of memory on at its bottom.
Quads(a, n) == [i \in 1 .. n |-> <<"qword", (a + i - 1) % Size>>]

(***************************************************************************)
(* The channel deals with one tag; s is its state [pc, stack, sent,        *)
(* ended].                                                                 *)
(***************************************************************************)
Local(tag) == tag.id \in {"Cnt", "Next", "Call", "Ret", "End"}

Payload(s, tag) ==
    (IF Vif /\ Local(tag) THEN <<<<"upper", s.pc>>>> ELSE <<>>)
        \o Quads(IF Local(tag) THEN s.pc + 1 ELSE tag.addr, tag.qwc)

Dealt(s) ==
    LET tag == mem[s.pc]
        behind == s.pc + 1 + tag.qwc
        depth == Len(s.stack)
    IN  [pc |-> CASE tag.id \in {"Refe", "Ref"} -> s.pc + 1
                  [] tag.id = "Cnt" -> behind
                  [] tag.id \in {"Next", "Call"} -> tag.addr
                  [] tag.id = "Ret" /\ depth > 0 -> s.stack[depth]
                  [] OTHER -> s.pc,
         stack |-> CASE tag.id = "Call" /\ depth < 2 -> Append(s.stack, behind)
                     [] tag.id = "Ret" /\ depth > 0 -> SubSeq(s.stack, 1, depth - 1)
                     [] OTHER -> s.stack,
         sent |-> s.sent \o Payload(s, tag),
         ended |-> tag.id \in {"Refe", "End"} \/ (tag.id = "Ret" /\ depth = 0)]

Becomes(s) == pc' = s.pc /\ stack' = s.stack /\ sent' = s.sent /\ ended' = s.ended

Step ==
    /\ on /\ ~ended /\ pc \in DOMAIN mem
    /\ Becomes(Dealt([pc |-> pc, stack |-> stack, sent |-> sent, ended |-> ended]))
    /\ UNCHANGED <<mem, on, given, asked>>

Switch == on' = ~on /\ UNCHANGED <<mem, given, asked, chainVars>>

(***************************************************************************)
(* A start by the program.  A disabled controller only takes the registers *)
(* in.                                                                     *)
(***************************************************************************)
BeginsAt(a) == pc' = a /\ stack' = <<>> /\ ended' = FALSE

NewChain(a) == BeginsAt(a) /\ UNCHANGED sent

\* A chain that is short and comes to its end, all at once.
WholeChain(a) ==
    /\ on /\ a \in DOMAIN mem
    /\ LET s[n \in 0 .. Size] ==
             IF n = 0 THEN [pc |-> a, stack |-> <<>>, sent |-> sent, ended |-> FALSE]
             ELSE LET r == s[n - 1]
                  IN  IF r.ended \/ r.pc \notin DOMAIN mem THEN r ELSE Dealt(r)
           last == s[Size]
       IN  last.ended /\ Becomes(last)

\* n quadwords from a, without tags; sceDmaSend puts a where tags are read too.
Block(a, n, send) ==
    /\ sent' = IF on THEN sent \o Quads(a, n) ELSE sent
    /\ IF send THEN BeginsAt(a) ELSE UNCHANGED <<pc, stack, ended>>

\* The program lets a chain go on that has stopped on the way.
Resume == ~ended /\ UNCHANGED chainVars

Start ==
    /\ given' = given + 1 /\ UNCHANGED <<mem, on>>
    /\ \/ asked'.c # Me /\ UNCHANGED chainVars
       \/ /\ asked'.c = Me
          /\ \/ asked'.what = "chain" /\ (NewChain(asked'.addr) \/ WholeChain(asked'.addr))
             \/ asked'.what = "block" /\ Block(asked'.addr, asked'.n, FALSE)
             \/ asked'.what = "send" /\ Block(asked'.addr, asked'.n, TRUE)
             \/ asked'.what = "resume" /\ Resume

\* Memory is whatever the program has put there.
Init == pc = 0 /\ stack = <<>> /\ sent = <<>> /\ ended = TRUE
Spec == Init /\ [][Step \/ Switch \/ Start]_vars
=============================================================================

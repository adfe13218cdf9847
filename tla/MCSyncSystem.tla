----------------------------- MODULE MCSyncSystem -----------------------------
(***************************************************************************)
(* Instances of SyncSystem for TLC.  The ids of names are those that       *)
(* GXPass makes of their bytes, in words of 15 bits.                       *)
(***************************************************************************)
EXTENDS SyncSystem

CONSTANTS py, cc, it,          \* programs: in Python, in C++, the interpreter
          ad, bc, cb, oc, sub,   \* names
          e, t, l, h             \* values: "", "true", a long and a huge one

MCLang == [p \in Programs |-> IF p = py THEN "py" ELSE IF p = cc THEN "cpp" ELSE "coly"]

\* "OnlyCompile" and "subprocess1" are those two names in full.
MCBytes ==
  [n \in Names |->
     CASE n = ad -> <<97, 100>> [] n = bc -> <<98, 99>> [] n = cb -> <<99, 98>>
       [] n = oc -> <<79, 110, 108, 121, 67, 111, 109, 112, 105, 108, 101>>
       [] n = sub -> <<115, 117, 98, 112, 114, 111, 99, 101, 115, 115, 49>>]

MCSpelling == [n \in Names |-> IF n = sub THEN <<"subprocess", "1">> ELSE <<"a", "b">>]

\* 512 bytes are one unit; the server's buffer is larger, Python's is larger
\* still, and the huge value does not fit the server's.
MCLength == [v \in Values |-> IF v = h THEN 3 ELSE IF v = l THEN 2 ELSE 1]
MCBuffer == [cpp |-> 1, coly |-> 1, py |-> 3]

MCTimes == -2 .. 1

Each(x, y, z) == [p \in Programs |-> IF p = py THEN x ELSE IF p = cc THEN y ELSE z]

MCWrites == Each({ad}, {bc}, {oc})
MCReads == Each({bc}, {ad}, {sub})
MCAssigned == Each({l}, {h}, {t})
MCMaxCalls == Each(4, 3, 1)
AllRaw == {"set var", "del var", "none"}

\* One program that reads back the long value it wrote.
OneName == [p \in Programs |-> {ad}]
LongValue == [p \in Programs |-> {l}]
FiveCalls == [p \in Programs |-> 5]
-------------------------------------------------------------------------------
\* The names that have the same bytes as n, in whatever order.
Anagrams ==
  [n \in Names |-> {m \in Names : SortSeq(Bytes[m], <) = SortSeq(Bytes[n], <)}]

\* A command changes only what is filed under the name it gives, or under an
\* anagram of that name (server.cpp:329, 444, 549; GXPass.hpp:158-226).
NamesApart ==
  [][\A n \in Names : store'[Id[n]] # store[Id[n]] =>
       \E p \in Programs :
         /\ Arrived(p) /\ up'[p] # up[p]
         /\ Msg(p).name # None /\ n \in Anagrams[Msg(p).name]]_vars
===============================================================================

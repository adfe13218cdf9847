------------------------------- MODULE GXPassIds -------------------------------
(***************************************************************************)
(* The ids of src/GXPass.hpp: GXPass::number2ABC(GXPass::compile(name)),   *)
(* by which the server names processes, variables and tokens.              *)
(*                                                                         *)
(* A name is the sequence of its bytes, a number in decimal the sequence   *)
(* of its digits, and an id the sequence of the positions of its letters   *)
(* in the alphabet.                                                        *)
(***************************************************************************)
EXTENDS Integers, SequencesExt

CONSTANT WordMod  \* 2^64 in the program: the number of values of its words

ASSUME WordAssumption == WordMod \in Nat /\ WordMod > 256

\* static_cast<type>(c) of a char, which is signed.
Word(c) == IF c < 128 THEN c ELSE WordMod - 256 + c

Wrap(n) == n % WordMod

\* The sum of the bytes, and the sums with alternating signs.
sum(name) == FoldLeft(LAMBDA s, c : Wrap(s + Word(c)), 0, name)

dxsum1(name) ==
  FoldLeftDomain(LAMBDA s, i : IF i % 2 = 1 THEN Wrap(s + Word(name[i]))
                                            ELSE Wrap(s - Word(name[i])), 0, name)

dxsum2(name) == Wrap(-dxsum1(name))

\* a to the power n by squaring: the product wraps before it is reduced.
Modulus == WordMod - 1

MulMod(a, b) == Wrap(a * b) % Modulus

ksm(a, size) ==
  LET power[n \in 0 .. size] ==
        IF n = 0 THEN 1 % Modulus
        ELSE IF n = 1 THEN a % Modulus
        ELSE LET half == power[n \div 2]
             IN IF n % 2 = 1 THEN MulMod(MulMod(half, half), a % Modulus)
                             ELSE MulMod(half, half)
  IN power[size]

ksmsum(name) ==
  FoldLeft(LAMBDA s, c : Wrap(s + ksm(Word(c), Len(name))) % Modulus, 0, name)

-------------------------------------------------------------------------------
Digits(number) ==
  LET digits[n \in 0 .. number] ==
        IF n < 10 THEN <<n>> ELSE Append(digits[n \div 10], n % 10)
  IN digits[number]

\* The four digests in ascending order; one that occurs m times is written
\* m times for each of its occurrences.
compile(name) ==
  LET digest == <<sum(name), dxsum1(name), dxsum2(name), ksmsum(name)>>
      Occurs(d) == Cardinality({i \in DOMAIN digest : digest[i] = d})
      written == SetToSortSeq(Range(digest), <)
  IN FlattenSeq([i \in DOMAIN written |->
       FlattenSeq([j \in 1 .. Occurs(written[i]) * Occurs(written[i]) |->
         Digits(written[i])])])

\* The digits read in order: up to two of them make a letter.  -1 means that
\* no digit is pending.
Letter(state, d) ==
  LET Emit(letters, number) == [ret |-> state.ret \o letters, number |-> number]
      number == state.number
  IN CASE number = -1 -> Emit(<<>>, d)
       [] number = 0 /\ d = 0 -> state
       [] number = 0 /\ d # 0 -> Emit(<<d>>, -1)
       [] number = 1 -> Emit(<<10 + d>>, -1)
       [] number = 2 /\ d <= 6 -> Emit(<<20 + d>>, -1)
       [] number = 2 /\ d > 6 -> Emit(<<2, d>>, -1)
       [] OTHER -> Emit(<<number>>, d)

number2ABC(digits) ==
  LET last == FoldLeft(Letter, [ret |-> <<>>, number |-> -1], digits)
  IN IF last.number \in {-1, 0} THEN last.ret ELSE Append(last.ret, last.number)

\* Mutant of NameId: the sum of the bytes alone.
NameIdOfSum(name) == number2ABC(Digits(sum(name)))

NameId(name) == number2ABC(compile(name))
===============================================================================

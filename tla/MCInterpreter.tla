----------------------------- MODULE MCInterpreter -----------------------------
(***************************************************************************)
(* Instances of Interpreter for TLC: a set of lines, and all the scripts   *)
(* of up to so many of them after a fixed beginning.                       *)
(***************************************************************************)
EXTENDS Interpreter, SequencesExt

CONSTANTS x, y, s, t, py, cc, main, lib

Op(op) == [op |-> op]
On1(op, n) == [op |-> op, name |-> n]
Code(n, l, private) == [op |-> "code", name |-> n, lang |-> l, private |-> private]
Line(a) == [op |-> "body", text |-> a]
Var(n, private, a) == [op |-> "var", name |-> n, private |-> private, text |-> a]

Library == <<On1("position", x), Code(y, py, FALSE), Line(t)>>

\* The scripts of at most n lines of L, after the lines of `begin`.
ScriptsOf(L, begin, n) ==
  {[f \in {main, lib} |-> IF f = main THEN begin \o script ELSE Library] :
     script \in BoundedSeq(L, n)}

\* One line of each kind, about a private code x and a public name y.
AllLines ==
  {Code(x, py, TRUE), Code(y, cc, FALSE), Line(s), Line(t),
   [op |-> "inline", name |-> y, lang |-> py, text |-> t], Var(y, FALSE, t),
   [op |-> "novalue", name |-> y, private |-> FALSE], On1("position", y),
   [op |-> "function", name |-> y, code |-> x, arg |-> y],
   [op |-> "call", name |-> y, text |-> t],
   On1("use", x), On1("usewithoutwait", y), On1("use", y), On1("jump", y),
   [op |-> "if", a |-> x, b |-> y, then |-> On1("jump", x)],
   [op |-> "do", then |-> [op |-> "import lib", file |-> lib]],
   On1("print", y), Op("commitvaroperation"), Op("killallsubprocess"), Op("exit"),
   Op("unknown"), Op("skip")}

\* A function whose argument has the name of a position: the call defines it
\* once more, and a jump goes to the call.
CallDefines ==
  <<On1("position", y), [op |-> "function", name |-> y, code |-> x, arg |-> y],
    [op |-> "call", name |-> y, text |-> t], On1("jump", y)>>

MCScripts == ScriptsOf(AllLines, <<Code(x, py, TRUE), Line(s)>>, 3)
             \cup ScriptsOf({}, CallDefines, 0)

\* Defining and using one code of a compiled language.
CompiledScripts == ScriptsOf({Code(x, cc, FALSE), Line(s), Line(t), On1("use", x)}, <<>>, 6)
===============================================================================

---------------------------- MODULE CommandDispatch ----------------------------
(***************************************************************************)
(* How CommandExecutor (src/server.cpp) makes an operation number and an   *)
(* argument out of the text of a command.                                  *)
(*                                                                         *)
(* A text is a sequence of tokens: the words of the operations wherever    *)
(* they occur, and every other character on its own.  Words are told apart *)
(* from characters because only a word can change the operation.           *)
(***************************************************************************)
EXTENDS Naturals, Sequences

\* operations, in the order in which they are tried.
Operations ==
  << [OperationValue |-> "set", id |-> 1], [OperationValue |-> "get", id |-> 2],
     [OperationValue |-> "del", id |-> 3], [OperationValue |-> "sync", id |-> 4],
     [OperationValue |-> "reg", id |-> 5], [OperationValue |-> "login", id |-> 6],
     [OperationValue |-> "wait", id |-> 7], [OperationValue |-> "process", id |-> 1],
     [OperationValue |-> "var", id |-> 2], [OperationValue |-> "subprocess", id |-> 3] >>

Words == {Operations[i].OperationValue : i \in DOMAIN Operations}

\* What is left of a word that lost its first character.
Broken == "..."

\* Mutant of AfterWord: the word goes and the space stays.
AfterWordOnly(text) == Tail(text)

\* The word goes, and one character after it.
AfterWord(text) ==
  LET rest == Tail(text)
  IN IF rest = <<>> THEN <<>>
     ELSE IF Head(rest) \in Words THEN <<Broken>> \o Tail(rest) ELSE Tail(rest)

\* Every word of the list is tried once, on what is left of the text.
Strip(command, op) ==
  IF command.text # <<>> /\ Head(command.text) = op.OperationValue
  THEN [operation_id |-> command.operation_id * 10 + op.id,
        text |-> AfterWord(command.text)]
  ELSE command

Dispatch(text) ==
  LET after[i \in 0 .. Len(Operations)] ==
        IF i = 0 THEN [operation_id |-> 0, text |-> text]
                 ELSE Strip(after[i - 1], Operations[i])
  IN after[Len(Operations)]
===============================================================================
